---- MODULE Spec2Model ----
(***************************************************************************)
(* A model of RigidBodyContactEffector (Basilisk).                         *)
(*                                                                         *)
(* Three specifications share the module:                                  *)
(*   SpecInterval  the interval arithmetic kernel (IntervalDotProduct,     *)
(*                 IntervalCrossProduct) applied to bounded inputs;        *)
(*   SpecMesh      ComputeHalfEdge applied to bounded closed meshes;       *)
(*   Spec          the effector object: UpdateState, Reset and             *)
(*                 computeForceTorque in any call order.                   *)
(*                                                                         *)
(* Conventions.  Eigen vectors are 1-based sequences <<x, y, z>> of        *)
(* integers.  A double that is a quotient (an impulse divided by a time    *)
(* step) is kept exact as a record [num, den].  Times are integer ticks;   *)
(* the source's comparisons against 1e-15 are equality of ticks.           *)
(***************************************************************************)
EXTENDS Integers, Sequences, FiniteSets, TLC

VARIABLES
    \* --- interval kernel harness
    vectorA,            \* vectorInterval argument A
    vectorB,            \* vectorInterval argument B
    ivOp,               \* which kernel operation produced ivResult
    ivResult,           \* the value the operation returned
    \* --- ComputeHalfEdge harness
    vertices,           \* body.vertices: the body's vertex list
    shapes,             \* body.shapes: per .obj group, its triangles
    maxBoundingBoxDim,  \* this->maxBoundingBoxDim
    hePc,               \* "objFile" before the load, then the call that ran
    polyhedron,         \* what ComputeHalfEdge returned
    \* --- the effector object
    Bodies,             \* per body: isSpice and its four output queues
    closeBodies,        \* the close pairs <<A, B>> of this macro step
    currentSimSeconds,  \* the time of the last UpdateState, in macro steps
    currentBodyInCycle,
    currentMinError,
    responseFound,
    lockedToRand,
    timeFound,
    integrateTimeStep,
    newMacroTimeStep,
    topTime,
    topTimeStep,
    secondInter,
    forceExternal_N,        \* output of the last call, a quotient
    torqueExternalPntB_B,   \* output of the last call, a quotient
    \* --- the world around the effector
    scene,              \* the body states read by UpdateState: when and how
                        \* the bodies touch during this macro step
    \* --- history, read by the properties only
    last,               \* the last operation and what it decided
    repeat,             \* whether the last call repeated the call before it
    reported,           \* the solved answers reported since the last UpdateState
    \* --- the collision integration loop of computeForceTorque
    solverIn,           \* M_tot, coefRestitution, coefFriction and the contact velocity
    X_c,                \* the collision state
    currLoop,
    energyMet,
    solverPc,           \* "idle", "loop" while the while loop runs, "done" after it
    \* --- one entry of the mid-phase test of CheckBoundingBox
    boxEntry,           \* box1, box2 and displacementInterval
    boxDecision,        \* what the 15 tests decided, as given and swapped
    \* --- the fine detection of computeForceTorque for one close pair
    fineTodo,           \* the contact candidates the loops have yet to reach
    fineNp,             \* impacts, currentMaxError, currentMinError, maxErrorInd
    fineOutcome,        \* "detecting", then what lines 994-1028 decided
    fineDone,           \* the candidates the loops have reached, and whether each was added
    \* --- the state prediction of computeForceTorque for one close pair
    predIn,             \* the stored states of bodies A and B, the elapsed time and timeStep
    predOut             \* body1Current, body1Future, body2Current, body2Future

intervalVars == <<vectorA, vectorB, ivOp, ivResult>>

meshVars == <<vertices, shapes, maxBoundingBoxDim, hePc, polyhedron>>

effectorVars ==
    <<Bodies, closeBodies, currentSimSeconds, currentBodyInCycle, currentMinError, responseFound,
      lockedToRand, timeFound, integrateTimeStep, newMacroTimeStep, topTime,
      topTimeStep, secondInter, forceExternal_N, torqueExternalPntB_B>>

historyVars == <<scene, last, repeat, reported>>

solverVars == <<solverIn, X_c, currLoop, energyMet, solverPc>>

boxVars == <<boxEntry, boxDecision>>

fineVars == <<fineTodo, fineNp, fineOutcome, fineDone>>

predVars == <<predIn, predOut>>

harnessVars == <<solverVars, boxVars, fineVars, predVars>>

\* Everything but one harness.
exceptSolver == <<intervalVars, meshVars, effectorVars, historyVars, boxVars, fineVars, predVars>>

exceptBox == <<intervalVars, meshVars, effectorVars, historyVars, solverVars, fineVars, predVars>>

exceptFine == <<intervalVars, meshVars, effectorVars, historyVars, solverVars, boxVars, predVars>>

exceptPredict == <<intervalVars, meshVars, effectorVars, historyVars, solverVars, boxVars, fineVars>>

vars == <<intervalVars, meshVars, effectorVars, historyVars, harnessVars>>

-----------------------------------------------------------------------------
(* Small integer helpers                                                   *)

Abs(x) == IF x < 0 THEN -x ELSE x

Min2(x, y) == IF x <= y THEN x ELSE y

Max2(x, y) == IF x >= y THEN x ELSE y

\* *std::min_element over a non-empty sequence of numbers
MinElement(s) == CHOOSE x \in {s[i] : i \in 1..Len(s)} :
                    \A j \in 1..Len(s) : x <= s[j]

\* *std::max_element over a non-empty sequence of numbers
MaxElement(s) == CHOOSE x \in {s[i] : i \in 1..Len(s)} :
                    \A j \in 1..Len(s) : x >= s[j]

Dot(a, b) == a[1] * b[1] + a[2] * b[2] + a[3] * b[3]

Cross(a, b) == << a[2] * b[3] - a[3] * b[2],
                  a[3] * b[1] - a[1] * b[3],
                  a[1] * b[2] - a[2] * b[1] >>

VecAdd(a, b) == << a[1] + b[1], a[2] + b[2], a[3] + b[3] >>

VecSub(a, b) == << a[1] - b[1], a[2] - b[2], a[3] - b[3] >>

VecNeg(a) == << -a[1], -a[2], -a[3] >>

ZeroVec == << 0, 0, 0 >>

-----------------------------------------------------------------------------
(* Interval arithmetic kernel                                              *)

\* The four endpoint products the source pushes for one pair of components:
\* lower*lower, lower*upper, upper*lower, upper*upper.
EndpointProducts(vA, i, vB, j) ==
    << vA.lower[i] * vB.lower[j], vA.lower[i] * vB.upper[j],
       vA.upper[i] * vB.lower[j], vA.upper[i] * vB.upper[j] >>

\* A dot product that looks only at the matching endpoints (lower with lower,
\* upper with upper) and forgets the two mixed products.
IntervalDotProduct_MatchingEndpointsOnly(vA, vB) ==
    LET c(i) == << vA.lower[i] * vB.lower[i], vA.upper[i] * vB.upper[i] >>
    IN  << MinElement(c(1)) + MinElement(c(2)) + MinElement(c(3)),
           MaxElement(c(1)) + MaxElement(c(2)) + MaxElement(c(3)) >>

\* IntervalDotProduct: result[1] is the sum of the componentwise minima of the
\* endpoint products, result[2] the sum of the maxima.
IntervalDotProduct(vA, vB) ==
    LET component1 == EndpointProducts(vA, 1, vB, 1)
        component2 == EndpointProducts(vA, 2, vB, 2)
        component3 == EndpointProducts(vA, 3, vB, 3)
    IN  << MinElement(component1) + MinElement(component2) + MinElement(component3),
           MaxElement(component1) + MaxElement(component2) + MaxElement(component3) >>

\* IntervalCrossProduct: the source subtracts minimum from minimum and maximum
\* from maximum.
IntervalCrossProduct(vA, vB) ==
    LET a2b3 == EndpointProducts(vA, 2, vB, 3)
        a3b2 == EndpointProducts(vA, 3, vB, 2)
        a3b1 == EndpointProducts(vA, 3, vB, 1)
        a1b3 == EndpointProducts(vA, 1, vB, 3)
        a1b2 == EndpointProducts(vA, 1, vB, 2)
        a2b1 == EndpointProducts(vA, 2, vB, 1)
    IN  [ lower |-> << MinElement(a2b3) - MinElement(a3b2),
                       MinElement(a3b1) - MinElement(a1b3),
                       MinElement(a1b2) - MinElement(a2b1) >>,
          upper |-> << MaxElement(a2b3) - MaxElement(a3b2),
                       MaxElement(a3b1) - MaxElement(a1b3),
                       MaxElement(a1b2) - MaxElement(a2b1) >> ]

-----------------------------------------------------------------------------
(* SpecInterval: the kernel applied to bounded inputs                      *)

\* Endpoint coordinates range over -MaxCoord..MaxCoord.
MaxCoord == 2

Coords == (0 - MaxCoord)..MaxCoord

\* How an endpoint moves over the step: upper = lower + displacement.
Displacements == { << 0, 0, 0 >>, << 1, 1, 1 >>, << -2, 1, 0 >> }

IntervalInputs ==
    { [lower |-> << x, y, z >>, upper |-> VecAdd(<< x, y, z >>, d)] :
        x \in Coords, y \in Coords, z \in Coords, d \in Displacements }

Between(x, p, q) == Min2(p, q) <= x /\ x <= Max2(p, q)

\* The integer points whose every component lies between the two endpoints.
Box(v) ==
    { << x, y, z >> : x \in Min2(v.lower[1], v.upper[1])..Max2(v.lower[1], v.upper[1]),
                      y \in Min2(v.lower[2], v.upper[2])..Max2(v.lower[2], v.upper[2]),
                      z \in Min2(v.lower[3], v.upper[3])..Max2(v.lower[3], v.upper[3]) }

\* The interval harness when another specification runs.
IntervalIdle ==
    /\ vectorA = [lower |-> ZeroVec, upper |-> ZeroVec]
    /\ vectorB = [lower |-> ZeroVec, upper |-> ZeroVec]
    /\ ivOp = "idle"
    /\ ivResult = << >>

\* The ComputeHalfEdge harness when another specification runs.
MeshIdle ==
    /\ vertices = << >>
    /\ shapes = << >>
    /\ maxBoundingBoxDim = 0
    /\ hePc = "idle"
    /\ polyhedron = << >>

\* The effector object when another specification runs.
EffectorIdle ==
    /\ Bodies = << >>
    /\ closeBodies = << >>
    /\ currentSimSeconds = 0
    /\ currentBodyInCycle = -1
    /\ currentMinError = 0
    /\ responseFound = FALSE
    /\ lockedToRand = FALSE
    /\ timeFound = 0
    /\ integrateTimeStep = 0
    /\ newMacroTimeStep = TRUE
    /\ topTime = 0
    /\ topTimeStep = 0
    /\ secondInter = FALSE
    /\ forceExternal_N = << >>
    /\ torqueExternalPntB_B = << >>
    /\ scene = << >>
    /\ last = << >>
    /\ repeat = "no"
    /\ reported = {}

\* The collision integration loop when another specification runs.
SolverIdle ==
    /\ solverIn = << >>
    /\ X_c = << >>
    /\ currLoop = 0
    /\ energyMet = FALSE
    /\ solverPc = "idle"

\* The mid-phase harness when another specification runs.
BoxIdle ==
    /\ boxEntry = << >>
    /\ boxDecision = << >>

\* The fine detection harness when another specification runs.
FineIdle ==
    /\ fineTodo = << >>
    /\ fineNp = << >>
    /\ fineOutcome = "idle"
    /\ fineDone = << >>

\* The state prediction harness when another specification runs.
PredictIdle ==
    /\ predIn = << >>
    /\ predOut = << >>

HarnessIdle ==
    /\ SolverIdle
    /\ BoxIdle
    /\ FineIdle
    /\ PredictIdle

InitInterval ==
    /\ vectorA \in IntervalInputs
    /\ vectorB \in IntervalInputs
    /\ ivOp = "none"
    /\ ivResult = << >>
    /\ MeshIdle
    /\ EffectorIdle
    /\ HarnessIdle

CallIntervalDotProduct ==
    /\ ivOp = "none"
    /\ ivOp' = "dot"
    /\ ivResult' = IntervalDotProduct(vectorA, vectorB)
    /\ UNCHANGED << vectorA, vectorB, meshVars, effectorVars, historyVars, harnessVars >>

CallIntervalCrossProduct ==
    /\ ivOp = "none"
    /\ ivOp' = "cross"
    /\ ivResult' = IntervalCrossProduct(vectorA, vectorB)
    /\ UNCHANGED << vectorA, vectorB, meshVars, effectorVars, historyVars, harnessVars >>

NextInterval ==
    \/ CallIntervalDotProduct
    \/ CallIntervalCrossProduct

SpecInterval == InitInterval /\ [][NextInterval]_vars

-----------------------------------------------------------------------------
(* Claims about the interval kernel                                        *)

\* C1: IntervalDotProduct is sound.  For every a in the box of A and every b in
\* the box of B, result[0] <= a.b <= result[1].
C1_DotSound ==
    ivOp = "dot" =>
        \A a \in Box(vectorA), b \in Box(vectorB) :
            ivResult[1] <= Dot(a, b) /\ Dot(a, b) <= ivResult[2]

\* C1 witness: the dot product was taken of two intervals that both move and
\* whose product range is not a single value.
C1_Witness ==
    /\ ivOp = "dot"
    /\ vectorA.lower # vectorA.upper
    /\ vectorB.lower # vectorB.upper
    /\ ivResult[1] < 0
    /\ ivResult[2] > 0

\* C2 (as claimed): IntervalCrossProduct is sound.  For every a in the box of A
\* and b in the box of B, each component of a x b lies between the matching
\* components of the returned lower and upper vectors.
C2_CrossSound ==
    ivOp = "cross" =>
        \A a \in Box(vectorA), b \in Box(vectorB) :
            \A i \in 1..3 :
                Between(Cross(a, b)[i], ivResult.lower[i], ivResult.upper[i])

-----------------------------------------------------------------------------
(* ComputeHalfEdge                                                         *)
(*                                                                         *)
(* Vertex and face indices are the source's 0-based values (-1 is the      *)
(* placeholder of a missing neighbour); At reads a 0-based position of a   *)
(* sequence.  Distances are compared squared: norm() is the square root    *)
(* of DistSq, and the square root is monotone.  The face normals,          *)
(* centroids and per-face boxes of lines 196-226 are computed from the     *)
(* vertices alone and are read by no later step of the grouping or of the  *)
(* edge lists; they are left out of the returned record.                   *)

At(s, i) == s[i + 1]

SetAt(s, i, v) == [s EXCEPT ![i + 1] = v]

Contains(s, x) == \E i \in 1..Len(s) : s[i] = x

\* erase(remove(begin, end, x), end)
EraseValue(s, x) == SelectSeq(s, LAMBDA y : y # x)

DistSq(a, b) == Dot(VecSub(a, b), VecSub(a, b))

NormSq(a) == Dot(a, a)

\* Lines 184-238: the triangles of every shape, in file order.
RECURSIVE AllFaces(_)
AllFaces(shp) ==
    IF shp = << >> THEN << >> ELSE Head(shp) \o AllFaces(Tail(shp))

\* Line 230: the largest distance of a vertex of the face from the origin.
FaceMaxDist(verts, face) ==
    MaxElement(<< NormSq(At(verts, face[1])), NormSq(At(verts, face[2])),
                  NormSq(At(verts, face[3])) >>)

\* Line 259: two positions kk # ww of face f match two positions gg # pp of g.
SharesEdge(f, g) ==
    \E kk \in 1..3, gg \in 1..3, ww \in 1..3, pp \in 1..3 :
        ww # kk /\ gg # pp /\ f[kk] = g[gg] /\ f[ww] = g[pp]

HasFree(c) == Contains(c, -1)

\* std::find(c.begin(), c.end(), -1): the first free slot (1-based).
FirstFree(c) == CHOOSE i \in 1..3 : c[i] = -1 /\ \A j \in 1..(i - 1) : c[j] # -1

\* Lines 245-274: face ii looks through unconnectedFaces for neighbours.
\* Returns the connections and whether a write went through end() (a
\* neighbour with no free slot).
RECURSIVE ScanUnconnected(_, _, _, _, _)
ScanUnconnected(allFaces, ii, conn, unc, jj) ==
    IF jj > Len(unc) THEN [conn |-> conn, ub |-> FALSE]
    ELSE LET g == unc[jj] IN
         IF g = ii THEN ScanUnconnected(allFaces, ii, conn, unc, jj + 1)
         ELSE IF SharesEdge(At(allFaces, ii), At(allFaces, g))
         THEN IF ~HasFree(At(conn, g))
              THEN [conn |-> conn, ub |-> TRUE]
              ELSE LET c1 == SetAt(conn, ii,
                                [At(conn, ii) EXCEPT ![FirstFree(At(conn, ii))] = g])
                       c2 == SetAt(c1, g,
                                [At(c1, g) EXCEPT ![FirstFree(At(c1, g))] = ii])
                   IN  IF ~HasFree(At(c2, ii))
                       THEN [conn |-> c2, ub |-> FALSE]
                       ELSE ScanUnconnected(allFaces, ii, c2, unc, jj + 1)
         ELSE ScanUnconnected(allFaces, ii, conn, unc, jj + 1)

\* Lines 276-283: drop from unconnectedFaces the neighbours of ii that are now
\* full, then ii itself.
DropConnected(conn, unc, ii) ==
    LET full(f) == ~HasFree(At(conn, f))
        nb == At(conn, ii)
    IN  SelectSeq(unc, LAMBDA f : f # ii /\ ~(Contains(nb, f) /\ full(f)))

\* Lines 240-285: the face adjacency map.  status is "ok", "throws" (line 278:
\* allConnections.at(-1) for a face left with a missing neighbour) or
\* "undefined" (line 262 wrote through end()).
RECURSIVE ConnectFaces(_, _, _, _)
ConnectFaces(allFaces, ii, conn, unc) ==
    IF ii >= Len(allFaces) THEN [status |-> "ok", allConnections |-> conn]
    ELSE IF ~HasFree(At(conn, ii)) THEN ConnectFaces(allFaces, ii + 1, conn, unc)
    ELSE LET r == ScanUnconnected(allFaces, ii, conn, unc, 1) IN
         IF r.ub THEN [status |-> "undefined", allConnections |-> r.conn]
         ELSE IF HasFree(At(r.conn, ii))
         THEN [status |-> "throws", allConnections |-> r.conn]
         ELSE ConnectFaces(allFaces, ii + 1, r.conn, DropConnected(r.conn, unc, ii))

\* Lines 288-292: the orders std::sort may leave ungroupedFaces in: descending
\* faceMaxDist, faces at the same distance in any order (std::sort is not
\* stable).
RECURSIVE SortOutcomes(_, _)
SortOutcomes(faceMaxDist, todo) ==
    IF todo = {} THEN { << >> }
    ELSE UNION { { << f >> \o rest : rest \in SortOutcomes(faceMaxDist, todo \ {f}) } :
                    f \in { x \in todo : \A y \in todo :
                                At(faceMaxDist, x) >= At(faceMaxDist, y) } }

\* Lines 324-334, for one face of the group: append its neighbours that are
\* neither in the group nor listed yet.
RECURSIVE AppendNeighbours(_, _, _, _)
AppendNeighbours(nb, jj, facesInGroup, adj) ==
    IF jj > 3 THEN adj
    ELSE IF ~Contains(facesInGroup, nb[jj]) /\ ~Contains(adj, nb[jj])
         THEN AppendNeighbours(nb, jj + 1, facesInGroup, Append(adj, nb[jj]))
         ELSE AppendNeighbours(nb, jj + 1, facesInGroup, adj)

\* Lines 324-334: all the faces adjacent to the group.  ungroupedFaces is not
\* consulted: the test is membership in facesInGroup and in the list so far.
RECURSIVE AdjacentFacesToGroup(_, _, _, _, _)
AdjacentFacesToGroup(conn, facesInGroup, ungroupedFaces, ii, adj) ==
    IF ii > Len(facesInGroup) THEN adj
    ELSE AdjacentFacesToGroup(conn, facesInGroup, ungroupedFaces, ii + 1,
            AppendNeighbours(At(conn, facesInGroup[ii]), 1, facesInGroup, adj))

\* verticesInGroup, as the set of the vertex indices pushed at lines 310-313
\* and 370-373.
VerticesInGroup(allFaces, facesInGroup) ==
    { At(allFaces, facesInGroup[i])[k] : i \in 1..Len(facesInGroup), k \in 1..3 }

AdjacentDist_Smallest(verts, allFaces, facesInGroup, f) ==
    LET vg == VerticesInGroup(allFaces, facesInGroup)
        d  == { DistSq(At(verts, v), At(verts, At(allFaces, f)[jj])) :
                    v \in vg, jj \in 1..3 }
    IN  CHOOSE x \in d : \A y \in d : x <= y

\* Lines 338-354: the largest distance between a vertex of the group and a
\* vertex of the adjacent face.
AdjacentDist(verts, allFaces, facesInGroup, f) ==
    LET vg == VerticesInGroup(allFaces, facesInGroup)
        d  == { DistSq(At(verts, v), At(verts, At(allFaces, f)[jj])) :
                    v \in vg, jj \in 1..3 }
    IN  CHOOSE x \in d : \A y \in d : x >= y

\* std::distance(begin, std::min_element(...)): the first position of the minimum.
FirstMinIndex(s) ==
    CHOOSE i \in 1..Len(s) :
        /\ \A j \in 1..Len(s) : s[i] <= s[j]
        /\ \A j \in 1..(i - 1) : s[j] > s[i]

\* Lines 318-380: grow one group.  status "undefined": min_element of an
\* empty adjacentDistsToGroup is dereferenced.
RECURSIVE GrowGroup(_, _, _, _, _, _)
GrowGroup(verts, allFaces, conn, facesInGroup, ungroupedFaces, maxDim) ==
    LET adj == AdjacentFacesToGroup(conn, facesInGroup, ungroupedFaces, 1, << >>) IN
    IF adj = << >>
    THEN [status |-> "undefined", facesInGroup |-> facesInGroup,
          ungroupedFaces |-> ungroupedFaces]
    ELSE LET dists == [i \in 1..Len(adj) |->
                          AdjacentDist(verts, allFaces, facesInGroup, adj[i])]
         IN  IF MinElement(dists) >= maxDim * maxDim
             THEN [status |-> "ok", facesInGroup |-> facesInGroup,
                   ungroupedFaces |-> ungroupedFaces]
             ELSE LET f   == adj[FirstMinIndex(dists)]
                      fg  == Append(facesInGroup, f)
                      ung == EraseValue(ungroupedFaces, f)
                  IN  IF ung = << >>
                      THEN [status |-> "ok", facesInGroup |-> fg, ungroupedFaces |-> ung]
                      ELSE GrowGroup(verts, allFaces, conn, fg, ung, maxDim)

\* Lines 295-383: seed a group with the first ungrouped face, grow it, repeat.
\* Returns the groups as sequences of face numbers.
RECURSIVE BuildGroups(_, _, _, _, _, _)
BuildGroups(verts, allFaces, conn, ungroupedFaces, maxDim, groups) ==
    IF ungroupedFaces = << >> THEN [status |-> "ok", groups |-> groups]
    ELSE LET g == GrowGroup(verts, allFaces, conn, << Head(ungroupedFaces) >>,
                            Tail(ungroupedFaces), maxDim)
         IN  IF g.status # "ok"
             THEN [status |-> g.status, groups |-> Append(groups, g.facesInGroup)]
             ELSE BuildGroups(verts, allFaces, conn, g.ungroupedFaces, maxDim,
                              Append(groups, g.facesInGroup))

\* std::set iteration: the elements in ascending order.
RECURSIVE SortedSeq(_)
SortedSeq(S) ==
    IF S = {} THEN << >>
    ELSE LET m == CHOOSE x \in S : \A y \in S : x <= y
         IN  << m >> \o SortedSeq(S \ {m})

\* Lines 446-461 for one face: its three directed edges, each with the face's
\* position in the group and the group's number.
FaceEdges(tri, faceIt, shapeIt) ==
    << [edge |-> << tri[1], tri[2] >>, face |-> faceIt, shape |-> shapeIt],
       [edge |-> << tri[2], tri[3] >>, face |-> faceIt, shape |-> shapeIt],
       [edge |-> << tri[3], tri[1] >>, face |-> faceIt, shape |-> shapeIt] >>

RECURSIVE GroupEdges(_, _, _)
GroupEdges(faceTriangles, faceIt, shapeIt) ==
    IF faceIt >= Len(faceTriangles) THEN << >>
    ELSE FaceEdges(At(faceTriangles, faceIt), faceIt, shapeIt)
            \o GroupEdges(faceTriangles, faceIt + 1, shapeIt)

RECURSIVE OrganizeGroups_NoDifference(_, _, _, _, _, _)
OrganizeGroups_NoDifference(allFaces, groups, shapeIt, totalSet, poly, edges) ==
    IF shapeIt >= Len(groups) THEN [polyhedron |-> poly, edges |-> edges]
    ELSE LET fg  == At(groups, shapeIt)
             tris == [i \in 1..Len(fg) |-> At(allFaces, fg[i])]
             uniqueSet == { tris[i][k] : i \in 1..Len(tris), k \in 1..3 }
             cluster == [ faceTriangles |-> tris,
                          uniqueVertIndices |-> SortedSeq(uniqueSet),
                          edgeIndices |-> << >>,
                          faceIndices |-> << >> ]
         IN  OrganizeGroups_NoDifference(allFaces, groups, shapeIt + 1,
                            totalSet \cup uniqueSet, Append(poly, cluster),
                            edges \o GroupEdges(tris, 0, shapeIt))

\* Lines 386-470 without the bounding box: per group the triangles, the
\* directed edges appended to the body-wide lists, and uniqueVertIndices = the
\* group's vertex indices not in totalSet.
RECURSIVE OrganizeGroups(_, _, _, _, _, _)
OrganizeGroups(allFaces, groups, shapeIt, totalSet, poly, edges) ==
    IF shapeIt >= Len(groups) THEN [polyhedron |-> poly, edges |-> edges]
    ELSE LET fg  == At(groups, shapeIt)
             tris == [i \in 1..Len(fg) |-> At(allFaces, fg[i])]
             uniqueSet == { tris[i][k] : i \in 1..Len(tris), k \in 1..3 }
             cluster == [ faceTriangles |-> tris,
                          uniqueVertIndices |-> SortedSeq(uniqueSet \ totalSet),
                          edgeIndices |-> << >>,
                          faceIndices |-> << >> ]
         IN  OrganizeGroups(allFaces, groups, shapeIt + 1, totalSet \cup uniqueSet,
                            Append(poly, cluster),
                            edges \o GroupEdges(tris, 0, shapeIt))

\* Lines 481-492: the entry at searchIt is moved to position edgeIt+1
\* (emplace before edgeIt+1, erase at searchIt+1).  0-based positions.
MoveEntry(edges, edgeIt, searchIt) ==
    [k \in 1..Len(edges) |->
        IF k - 1 <= edgeIt THEN edges[k]
        ELSE IF k - 1 = edgeIt + 1 THEN At(edges, searchIt)
        ELSE IF k - 1 <= searchIt THEN edges[k - 1]
        ELSE edges[k]]

\* Lines 477-496: the inner search.  A match moves the entry and advances
\* edgeIt, and the search goes on (continue) for the same searchEdge.
RECURSIVE SearchPartner(_, _, _, _)
SearchPartner(edges, edgeIt, searchIt, searchEdge) ==
    IF searchIt >= Len(edges) THEN [edges |-> edges, edgeIt |-> edgeIt]
    ELSE IF At(edges, searchIt).edge = searchEdge
         THEN SearchPartner(MoveEntry(edges, edgeIt, searchIt), edgeIt + 1,
                            searchIt + 1, searchEdge)
         ELSE SearchPartner(edges, edgeIt, searchIt + 1, searchEdge)

\* Lines 473-497: bring each edge's reversed duplicate next to it.
RECURSIVE GroupDuplicateEdges(_, _)
GroupDuplicateEdges(edges, edgeIt) ==
    IF edgeIt >= Len(edges) THEN edges
    ELSE LET e == At(edges, edgeIt).edge
             r == SearchPartner(edges, edgeIt, edgeIt + 1, << e[2], e[1] >>)
         IN  GroupDuplicateEdges(r.edges, r.edgeIt + 1)

\* Lines 500-504: every second entry is saved into the group of its face,
\* with the face and group of the entry after it.  status "undefined": the
\* entry after it is past the end of the lists.
RECURSIVE SaveEdges(_, _, _)
SaveEdges(edges, edgeIt, poly) ==
    IF edgeIt >= Len(edges) THEN [status |-> "ok", polyhedron |-> poly]
    ELSE IF edgeIt + 1 >= Len(edges) THEN [status |-> "undefined", polyhedron |-> poly]
    ELSE LET a == At(edges, edgeIt)
             b == At(edges, edgeIt + 1)
             c == At(poly, a.shape)
             c2 == [c EXCEPT !.edgeIndices = Append(@, a.edge),
                             !.faceIndices = Append(@, << a.face, b.shape, b.face >>)]
         IN  SaveEdges(edges, edgeIt + 2, SetAt(poly, a.shape, c2))

\* Line 230 for every face.
FaceMaxDists(verts, shp) ==
    [i \in 1..Len(AllFaces(shp)) |-> FaceMaxDist(verts, AllFaces(shp)[i])]

\* ComputeHalfEdge(vertices, shapes), reading this->maxBoundingBoxDim.
\* sortedFaces is the order line 288 left ungroupedFaces in.
ComputeHalfEdge(verts, shp, maxDim, sortedFaces) ==
    LET allFaces == AllFaces(shp)
        n == Len(allFaces)
        c == ConnectFaces(allFaces, 0, [i \in 1..n |-> << -1, -1, -1 >>],
                          [i \in 1..n |-> i - 1])
    IN  IF c.status # "ok" THEN [status |-> c.status, polyhedron |-> << >>]
        ELSE LET g == BuildGroups(verts, allFaces, c.allConnections,
                                  sortedFaces, maxDim, << >>)
             IN  IF g.status # "ok" THEN [status |-> g.status, polyhedron |-> << >>]
                 ELSE LET o == OrganizeGroups(allFaces, g.groups, 0, {}, << >>, << >>)
                      IN  SaveEdges(GroupDuplicateEdges(o.edges, 0), 0, o.polyhedron)

-----------------------------------------------------------------------------
(* The bounding box of a cluster, lines 388-443, and findConvexHull        *)

\* The cross product of (p1 - p0) and (p2 - p1) in the x-y plane, with the
\* sign the source computes it with: negative for a left turn.
Turn(p0, p1, p2) ==
    (p1[2] - p0[2]) * (p2[1] - p1[1]) - (p1[1] - p0[1]) * (p2[2] - p1[2])

\* Lines 1831-1852.  On integer coordinates abs(val) < 0.01 is val = 0.
ComparePoints(p1, p2, p0) ==
    LET val == Turn(p0, p1, p2)
    IN  IF val = 0
        THEN Dot(VecSub(p0, p2), VecSub(p0, p2)) > Dot(VecSub(p0, p1), VecSub(p0, p1))
        ELSE val < 0

\* Lines 391-401: the vertex indices of the group's faces in the order they
\* first appear.
RECURSIVE FirstAppearance(_, _, _)
FirstAppearance(tris, k, seen) ==
    IF k >= 3 * Len(tris) THEN seen
    ELSE LET v == At(tris, k \div 3)[(k % 3) + 1]
         IN  FirstAppearance(tris, k + 1, IF Contains(seen, v) THEN seen ELSE Append(seen, v))

\* Lines 1859-1869: the index the search for the bottom-most point ends on.
RECURSIVE HullMin(_, _, _, _)
HullMin(points, i, minY, min) ==
    IF i >= Len(points) THEN min
    ELSE LET y == At(points, i)[2]
         IN  IF (y < minY \/ minY = y) /\ At(points, i)[1] < At(points, min)[1]
             THEN HullMin(points, i + 1, y, i)
             ELSE HullMin(points, i + 1, minY, min)

\* Lines 1871-1880: the orders std::sort may leave pointsWithMin in: no
\* entry ComparePoints puts before an earlier one; any order when the
\* comparison admits none.
HullOrders(q, p0) ==
    LET m == Len(q)
        perms == { f \in [1..m -> 1..m] : \A i, j \in 1..m : i # j => f[i] # f[j] }
        sorted == { f \in perms : \A i, j \in 1..m :
                        i < j => ~ComparePoints(q[f[j]], q[f[i]], p0) }
    IN  { [i \in 1..m |-> q[f[i]]] : f \in (IF sorted = {} THEN perms ELSE sorted) }

\* Lines 1888-1892: the inner while skips entries collinear with p0.
RECURSIVE SkipCollinear(_, _, _)
SkipCollinear(pwm, p0, i) ==
    IF i < Len(pwm) - 2 /\ Turn(p0, At(pwm, i), At(pwm, i + 1)) = 0
    THEN SkipCollinear(pwm, p0, i + 1)
    ELSE i

\* Lines 1884-1895: for (i = 0; i < n-2; i++) with n = Len(pwm) + 1.  The
\* writes to points[arrSize] after points.clear() land in the storage the
\* vector still owns.
RECURSIVE HullThin(_, _, _, _)
HullThin(pwm, p0, i, points) ==
    IF i >= Len(pwm) - 1 THEN points
    ELSE LET k == SkipCollinear(pwm, p0, i)
         IN  HullThin(pwm, p0, k + 1, Append(points, At(pwm, k)))

\* Lines 1903-1925: one pop at most for each point, then the push.
RECURSIVE HullScan(_, _, _)
HullScan(points, i, stk) ==
    IF i >= Len(points) THEN stk
    ELSE LET top == stk[Len(stk)]
             second == stk[Len(stk) - 1]
             val == Turn(second, top, At(points, i))
             kept == IF val < 0 THEN stk ELSE SubSeq(stk, 1, Len(stk) - 1)
         IN  HullScan(points, i + 1, Append(kept, At(points, i)))

\* findConvexHull, lines 1854-1932: the hulls it may return for the points,
\* one for each order the sort may produce; << >> when fewer than three
\* points are left.
findConvexHull(points) ==
    LET min == HullMin(points, 1, points[1][2], 0)
        swapped == [i \in 1..Len(points) |->
                       IF i = 1 THEN At(points, min)
                       ELSE IF i = min + 1 THEN points[1] ELSE points[i]]
        p0 == swapped[1]
    IN  { LET thinned == HullThin(pwm, p0, 0, << p0 >>)
          IN  IF Len(thinned) < 3 THEN << >>
              ELSE HullScan(thinned, 3, SubSeq(thinned, 1, 3)) :
          pwm \in HullOrders(Tail(swapped), p0) }

\* this->minBoundingBoxDim = 0.005 (line 36) in the doubled unit of
\* BoundingBoxOf: below every non-zero extent of integer coordinates.
minBoundingBoxDim == 0

\* Lines 410-443 for the points of the hull.  The centroid and the half
\* extents are kept doubled, so that (maxX + minX)/2.0 stays an integer.
BoundingBoxOf(hull) ==
    LET centroid == [k \in 1..3 |->
                        MaxElement([i \in 1..Len(hull) |-> hull[i][k]])
                        + MinElement([i \in 1..Len(hull) |-> hull[i][k]])]
    IN  [ centroid |-> centroid \o << >>,
          boundingBox |-> [k \in 1..3 |->
              Max2(minBoundingBoxDim,
                   MaxElement([i \in 1..Len(hull) |-> Abs(2 * hull[i][k] - centroid[k])]))]
              \o << >> ]

\* Lines 388-443 for one group: the boxes the group may be given.
ClusterBoxes(verts, cluster) ==
    LET facesInGroup == FirstAppearance(cluster.faceTriangles, 0, << >>)
        verticesInGroup == [i \in 1..Len(facesInGroup) |-> At(verts, facesInGroup[i])]
    IN  { BoundingBoxOf(IF hull = << >> THEN verticesInGroup ELSE hull) :
            hull \in findConvexHull(verticesInGroup) }

\* The polyhedron with polyhedron[shapeIt].centroid and .boundingBox of lines
\* 442-443 set, for every choice of the boxes.
RECURSIVE WithBoundingBoxes(_, _, _)
WithBoundingBoxes(verts, poly, shapeIt) ==
    IF shapeIt >= Len(poly) THEN { << >> }
    ELSE { << [ faceTriangles |-> At(poly, shapeIt).faceTriangles,
                uniqueVertIndices |-> At(poly, shapeIt).uniqueVertIndices,
                edgeIndices |-> At(poly, shapeIt).edgeIndices,
                faceIndices |-> At(poly, shapeIt).faceIndices,
                centroid |-> b.centroid,
                boundingBox |-> b.boundingBox ] >> \o rest :
             b \in ClusterBoxes(verts, At(poly, shapeIt)),
             rest \in WithBoundingBoxes(verts, poly, shapeIt + 1) }

\* ComputeHalfEdge with the bounding boxes: what the body's polyhedron may be.
HalfEdgeOutcomes(verts, shp, maxDim, sortedFaces) ==
    LET r == ComputeHalfEdge(verts, shp, maxDim, sortedFaces)
    IN  { [ status |-> r.status, polyhedron |-> p ] :
            p \in WithBoundingBoxes(verts, r.polyhedron, 0) }

-----------------------------------------------------------------------------
(* SpecMesh: a body file is loaded and ComputeHalfEdge organizes it        *)

\* The largest maxBoundingBoxDim tried.
MaxBoxDim == 13

\* A tetrahedron, one .obj group.
Tetrahedron ==
    [ vertices |-> << << 1, 1, 1 >>, << 1, -1, -1 >>, << -1, 1, -1 >>, << -1, -1, 1 >> >>,
      shapes   |-> << << << 0, 2, 1 >>, << 0, 1, 3 >>, << 0, 3, 2 >>, << 1, 2, 3 >> >> >> ]

\* An irregular octahedron, the upper and the lower half in two .obj
\* groups.  Vertices 0 and 1 are the apexes, 2..5 the ring.
Octahedron ==
    [ vertices |-> << << 0, 0, 1 >>, << 0, 0, -4 >>, << 7, 0, 0 >>,
                      << 0, 6, 0 >>, << -1, 0, 0 >>, << 0, -1, 0 >> >>,
      shapes   |-> << << << 0, 2, 3 >>, << 0, 3, 4 >>, << 0, 4, 5 >>, << 0, 5, 2 >> >>,
                      << << 1, 3, 2 >>, << 1, 4, 3 >>, << 1, 5, 4 >>, << 1, 2, 5 >> >> >> ]

\* The tetrahedron without its base: every face has one boundary edge.
OpenTetrahedron ==
    [ vertices |-> Tetrahedron.vertices,
      shapes   |-> << << << 0, 2, 1 >>, << 0, 1, 3 >>, << 0, 3, 2 >> >> >> ]

\* The same triangle written from another of its vertices.
RotateFace(tri, r) == [k \in 1..3 |-> tri[((k - 1 + r) % 3) + 1]]

MeshInputs ==
    { [ vertices |-> m.vertices,
        shapes   |-> [sh \in 1..Len(m.shapes) |->
                        [f \in 1..Len(m.shapes[sh]) |-> RotateFace(m.shapes[sh][f], r)]] ] :
        m \in { Tetrahedron, Octahedron, OpenTetrahedron }, r \in 0..2 }

InitMesh ==
    /\ \E m \in MeshInputs : vertices = m.vertices /\ shapes = m.shapes
    /\ maxBoundingBoxDim \in 1..MaxBoxDim
    /\ hePc = "objFile"
    /\ polyhedron = << >>
    /\ IntervalIdle
    /\ EffectorIdle
    /\ HarnessIdle

\* Lines 70-99.  The body's vertex list and groups are read and organized.
LoadSpacecraftBody ==
    /\ hePc = "objFile"
    /\ \E sortedFaces \in SortOutcomes(FaceMaxDists(vertices, shapes),
                                       0..(Len(AllFaces(shapes)) - 1)) :
          polyhedron' \in HalfEdgeOutcomes(vertices, shapes, maxBoundingBoxDim, sortedFaces)
    /\ hePc' = "LoadSpacecraftBody"
    /\ UNCHANGED << vertices, shapes, maxBoundingBoxDim, intervalVars, effectorVars, historyVars, harnessVars >>

\* Lines 109-136.
AddSpiceBody ==
    /\ hePc = "objFile"
    /\ \E sortedFaces \in SortOutcomes(FaceMaxDists(vertices, shapes),
                                       0..(Len(AllFaces(shapes)) - 1)) :
          polyhedron' \in HalfEdgeOutcomes(vertices, shapes, maxBoundingBoxDim, sortedFaces)
    /\ hePc' = "AddSpiceBody"
    /\ UNCHANGED << vertices, shapes, maxBoundingBoxDim, intervalVars, effectorVars, historyVars, harnessVars >>

NextMesh ==
    \/ LoadSpacecraftBody
    \/ AddSpiceBody

SpecMesh == InitMesh /\ [][NextMesh]_vars

-----------------------------------------------------------------------------
(* Claims about ComputeHalfEdge                                            *)

\* ComputeHalfEdge came back with a value (it did not throw).
Returned ==
    /\ hePc \in { "LoadSpacecraftBody", "AddSpiceBody" }
    /\ polyhedron.status # "throws"

\* The places (cluster, position) where a triangle is stored.
PlacesOfFace(poly, tri) ==
    { << c, i >> \in (1..Len(poly)) \X (1..3 * Len(AllFaces(shapes))) :
        i <= Len(poly[c].faceTriangles) /\ poly[c].faceTriangles[i] = tri }

\* The places (cluster, position) where an edge is stored, in either direction.
PlacesOfEdge(poly, u, v) ==
    { << c, i >> \in (1..Len(poly)) \X (1..3 * Len(AllFaces(shapes))) :
        /\ i <= Len(poly[c].edgeIndices)
        /\ poly[c].edgeIndices[i] \in { << u, v >>, << v, u >> } }

MeshEdges ==
    { << f[k], f[(k % 3) + 1] >> :
        f \in { AllFaces(shapes)[i] : i \in 1..Len(AllFaces(shapes)) }, k \in 1..3 }

\* C4 (as claimed): after ComputeHalfEdge every undirected edge of every
\* triangle is stored exactly once over all the clusters' edgeIndices, and the
\* first face recorded with it (faceA) is a face of the storing cluster that
\* has the edge.
C4_EdgeOnce ==
    Returned =>
        /\ \A e \in MeshEdges :
              Cardinality(PlacesOfEdge(polyhedron.polyhedron, e[1], e[2])) = 1
        /\ \A c \in 1..Len(polyhedron.polyhedron) :
              LET cl == polyhedron.polyhedron[c] IN
              \A i \in 1..Len(cl.edgeIndices) :
                  LET faceA == cl.faceIndices[i][1] IN
                  /\ faceA \in 0..(Len(cl.faceTriangles) - 1)
                  /\ \E k \in 1..3 :
                        << At(cl.faceTriangles, faceA)[k],
                           At(cl.faceTriangles, faceA)[(k % 3) + 1] >> = cl.edgeIndices[i]

\* C5 (as claimed): the clusters partition the faces: after ComputeHalfEdge
\* every triangle of the mesh is in exactly one cluster.
C5_Partition ==
    Returned =>
        \A i \in 1..Len(AllFaces(shapes)) :
            Cardinality(PlacesOfFace(polyhedron.polyhedron, AllFaces(shapes)[i])) = 1

-----------------------------------------------------------------------------
(* The effector object: UpdateState, Reset, computeForceTorque             *)
(*                                                                         *)
(* Body indices are the source's 0-based values; Bodies[b + 1] is          *)
(* this->Bodies[b].  A close pair is <<A, B>>: closeBodies[g][0] and       *)
(* closeBodies[g][1].  Times and time steps are integer ticks, so the      *)
(* comparisons against 1e-15 and against timeSynchTol are equality and     *)
(* currentTime + timeStep + 1.0e-15 is the tick currentTime + timeStep.    *)
(* A force or torque is the quotient [num, den] of an integer vector and   *)
(* an integer, the value num / den.                                        *)

\* The largest currentTime and timeStep the integrator passes.
MaxTime == 1

MaxStep == 2

\* computeForceTorque is not called once currentBodyInCycle would pass this.
MaxBodyInCycle == 3

\* computeForceTorque is not called once an output queue would grow past this.
MaxQueue == 2

\* this->maxPosError, set by the user.
maxPosError == 2

\* Line 564: this->currentMinError = 100.0.
CallMinError == 100

\* Line 1286: this->currentMinError = 1.0.
UpdateMinError == 1

\* Lines 1006-1011: (std::rand() % 1000) + 1000.0.
RandModulus == 1000

RandOffset == 1000

Quot(num, den) == [num |-> num, den |-> den]

\* setZero()
ZeroQuot == Quot(ZeroVec, 1)

\* Two quotients are the same value.
QuotEq(p, q) == \A i \in 1..3 : p.num[i] * q.den = q.num[i] * p.den

\* What reading past the end of a std::vector yields.
Indeterminate == Quot(ZeroVec, 0)

\* v.back() and v[0]
Back(q) == IF q = << >> THEN Indeterminate ELSE q[Len(q)]

Front(q) == IF q = << >> THEN Indeterminate ELSE q[1]

\* v.erase(v.begin())
EraseFront(q) == IF q = << >> THEN q ELSE Tail(q)

\* v.erase(v.begin() + i), i 1-based here
RemoveAt(q, i) == [k \in 1..(Len(q) - 1) |-> IF k < i THEN q[k] ELSE q[k + 1]]

MatVec(m, v) == << Dot(m[1], v), Dot(m[2], v), Dot(m[3], v) >>

RECURSIVE SumVec(_)
SumVec(vs) == IF vs = << >> THEN ZeroVec ELSE VecAdd(Head(vs), SumVec(Tail(vs)))

\* states.dcm_BN of body b as ExtractFromBuffer left it: even bodies are aligned
\* with the inertial frame, odd bodies are turned a quarter about z.
dcm_BN(b) ==
    IF b % 2 = 0
    THEN << << 1, 0, 0 >>, << 0, 1, 0 >>, << 0, 0, 1 >> >>
    ELSE << << 0, 1, 0 >>, << -1, 0, 0 >>, << 0, 0, 1 >> >>

\* The effector's members as one record.
Effector ==
    [ Bodies |-> Bodies, closeBodies |-> closeBodies,
      currentBodyInCycle |-> currentBodyInCycle, currentMinError |-> currentMinError,
      responseFound |-> responseFound, lockedToRand |-> lockedToRand,
      timeFound |-> timeFound, integrateTimeStep |-> integrateTimeStep,
      newMacroTimeStep |-> newMacroTimeStep, topTime |-> topTime,
      topTimeStep |-> topTimeStep, secondInter |-> secondInter,
      forceExternal_N |-> forceExternal_N,
      torqueExternalPntB_B |-> torqueExternalPntB_B ]

\* A body as LoadSpacecraftBody (isSpice = false) or AddSpiceBody (true) left it.
NewBody(isSpice) ==
    [ isSpice |-> isSpice, forceExternal_N |-> << >>, torqueExternalPntB_B |-> << >>,
      impactTimes |-> << >>, impactTimeSteps |-> << >>,
      coarseSearchList |-> [ parentIndices |-> << 0, 0 >>, overlaps |-> << >> ] ]

-----------------------------------------------------------------------------
(* Fine collision detection, lines 708-991                                 *)
(*                                                                         *)
(* The interval tests and the point/triangle and line/line routines pick   *)
(* the contact candidates; what they find is given by the scene.  A        *)
(* candidate is one passed test in loop order: its kind, the two contact   *)
(* points (a point is a number; two points are the same number exactly     *)
(* when they are closer than 1e-3), the contact error, for an edge-edge    *)
(* candidate whether the contact velocity opposes a face normal, and the   *)
(* impulse the integration of lines 1107-1141 ends with for it.            *)

Candidate(kind, first, second, error, approaching, a) ==
    [ kind |-> kind, first |-> first, second |-> second, error |-> error,
      approaching |-> approaching,
      impulse |-> << first + a, second, 1 >>,
      armA |-> << first, 0, 1 >>, armB |-> << 0, second, -1 >> ]

\* The candidates for body a at the contact time, one list per pattern.
ContactPattern(p, a) ==
    CASE p = 1 -> << Candidate("faceVert", 1, 1, 1, TRUE, a) >>
      [] p = 2 -> << Candidate("faceVert", 1, 1, 1, TRUE, a),
                     Candidate("vertFace", 2, 2, maxPosError, TRUE, a) >>
      [] p = 3 -> << Candidate("faceVert", 1, 1, maxPosError, TRUE, a),
                     Candidate("vertFace", 1, 2, 1, TRUE, a) >>
      [] p = 4 -> << Candidate("faceVert", 1, 1, 1, TRUE, a),
                     Candidate("edgeEdge", 1, 3, 1, FALSE, a) >>
      [] OTHER -> << Candidate("edgeEdge", 1, 1, maxPosError + 1, TRUE, a) >>

NumPatterns == 5

\* The patterns the bodies of a macro step touch in.
ScenePatterns == { 2 }

\* A scene: when the bodies touch, in which pattern, and how much larger every
\* gap is per tick before that.
Scenes == [ contactTime : 0..MaxTime, pattern : ScenePatterns, closing : { 0, maxPosError },
            overlaps : { << >>, << << 0, 0 >> >> } ]

\* The candidates a call at (currentTime, timeStep) finds for the pair <<a, b>>:
\* none unless the bodies touch within the step; a step that starts before the
\* contact time sees every gap larger by the scene's closing per tick, and the
\* impulse the integration ends with depends on the states at currentTime.
Candidates(sc, a, b, currentTime, timeStep) ==
    IF sc.contactTime \in currentTime..(currentTime + timeStep - 1)
    THEN LET pat == ContactPattern(sc.pattern, a) IN
         [ i \in 1..Len(pat) |->
             [ pat[i] EXCEPT !.error = @ + (sc.contactTime - currentTime) * sc.closing,
                             !.impulse = << @[1], @[2], @[3] + currentTime >> ] ]
    ELSE << >>

\* Lines 708-991 iterate the cluster pairs of body a's coarseSearchList: with
\* an empty list no candidate is looked at.
IteratedCandidates(bodies, sc, a, b, currentTime, timeStep) ==
    IF bodies[a + 1].coarseSearchList.overlaps = << >> THEN << >>
    ELSE Candidates(sc, a, b, currentTime, timeStep)

\* Lines 806-816: the first impact within 1e-3 of either contact point, 0 if none.
FirstNear(c, impacts) ==
    IF \E i \in 1..Len(impacts) : c.first = impacts[i].first \/ c.second = impacts[i].second
    THEN CHOOSE i \in 1..Len(impacts) :
            /\ c.first = impacts[i].first \/ c.second = impacts[i].second
            /\ \A j \in 1..(i - 1) :
                  ~(c.first = impacts[j].first \/ c.second = impacts[j].second)
    ELSE 0

\* Lines 804-829, 883-909, 947-986: one candidate against the manifold so far.
StepCandidate(np, c) ==
    IF ~(c.error <= maxPosError \/ c.error <= np.currentMinError) THEN np
    ELSE LET i == FirstNear(c, np.impacts)
             d == IF i = 0 THEN np
                  ELSE [ np EXCEPT !.impacts = RemoveAt(@, i),
                                   !.currentMaxError =
                                       IF i - 1 = np.maxErrorInd
                                       THEN np.currentMinError ELSE @ ]
             pushed == Append(d.impacts,
                              [ first |-> c.first, second |-> c.second,
                                impulse |-> c.impulse, armA |-> c.armA, armB |-> c.armB,
                                error |-> c.error ])
         IN  IF c.kind = "edgeEdge" /\ ~c.approaching THEN d
             ELSE IF c.error > d.currentMaxError
                  THEN [ d EXCEPT !.impacts = pushed, !.currentMaxError = c.error,
                                  !.maxErrorInd = Len(pushed) - 1 ]
                  ELSE [ d EXCEPT !.impacts = pushed, !.currentMinError = c.error ]

RECURSIVE StepCandidates(_, _)
StepCandidates(np, cands) ==
    IF cands = << >> THEN np
    ELSE StepCandidates(StepCandidate(np, Head(cands)), Tail(cands))

\* Lines 563-565 and 708-991.
NarrowPhase(cands) ==
    StepCandidates([ impacts |-> << >>, currentMaxError |-> 0,
                     currentMinError |-> CallMinError, maxErrorInd |-> -1 ], cands)

-----------------------------------------------------------------------------
(* computeForceTorque, lines 523-1239                                      *)

\* Six values of std::rand(), in call order.
RandDraws ==
    { << 999, 1999, 2999, 999, 999, 999 >>,
      << 1000, 2147483647, 500, 1, 998, 499 >> }

\* What one call decided, for the history: the members after the call, the
\* branch that answered, the pair it worked on, the manifold size and
\* currentMaxError the fine detection ended with (numImpacts -1 when it did
\* not run).
Outcome(s, kind, pair, numImpacts, currentMaxError) ==
    [ s |-> s, kind |-> kind, pair |-> pair, numImpacts |-> numImpacts,
      currentMaxError |-> currentMaxError ]

NoPair == << -1, -1 >>

BeginCall_KeepFlags(s, currentTime, timeStep, oobIsSpice) ==
    LET s1 == [ s EXCEPT !.forceExternal_N = ZeroQuot,
                         !.torqueExternalPntB_B = ZeroQuot,
                         !.currentMinError = CallMinError ]
        s2 == IF s1.newMacroTimeStep
              THEN [ s1 EXCEPT !.topTime = currentTime, !.topTimeStep = timeStep,
                               !.newMacroTimeStep = FALSE, !.secondInter = FALSE ]
              ELSE s1
        next == s2.currentBodyInCycle + 1
        isSpice == IF next \in 0..(Len(s2.Bodies) - 1)
                   THEN s2.Bodies[next + 1].isSpice ELSE oobIsSpice
    IN  IF s2.topTime = currentTime /\ s2.topTimeStep = timeStep
        THEN IF s2.secondInter
             THEN [ s2 EXCEPT !.secondInter = FALSE ]
             ELSE [ s2 EXCEPT !.currentBodyInCycle = IF isSpice THEN next + 1 ELSE next,
                              !.secondInter = TRUE ]
        ELSE s2

\* Lines 525-527, 564 and 599-624.  oobIsSpice is what the read of
\* Bodies[currentBodyInCycle].isSpice yields when the index is past the end.
BeginCall(s, currentTime, timeStep, oobIsSpice) ==
    LET s1 == [ s EXCEPT !.forceExternal_N = ZeroQuot,
                         !.torqueExternalPntB_B = ZeroQuot,
                         !.currentMinError = CallMinError ]
        s2 == IF s1.newMacroTimeStep
              THEN [ s1 EXCEPT !.topTime = currentTime, !.topTimeStep = timeStep,
                               !.newMacroTimeStep = FALSE, !.secondInter = FALSE ]
              ELSE s1
        next == s2.currentBodyInCycle + 1
        isSpice == IF next \in 0..(Len(s2.Bodies) - 1)
                   THEN s2.Bodies[next + 1].isSpice ELSE oobIsSpice
    IN  IF s2.topTime = currentTime /\ s2.topTimeStep = timeStep
        THEN IF s2.secondInter
             THEN [ s2 EXCEPT !.secondInter = FALSE ]
             ELSE [ s2 EXCEPT !.currentBodyInCycle = IF isSpice THEN next + 1 ELSE next,
                              !.secondInter = TRUE,
                              !.responseFound = FALSE,
                              !.lockedToRand = FALSE ]
        ELSE s2

\* Lines 636 and 1183: the stored answer still covers this call.
ResponseApplies(s, currentTime, timeStep) ==
    s.timeFound >= currentTime /\ timeStep = s.integrateTimeStep

\* Replays the oldest stored answer instead of the newest.
ReplayStored_Oldest(s, a) ==
    [ s EXCEPT !.forceExternal_N = Front(s.Bodies[a + 1].forceExternal_N),
               !.torqueExternalPntB_B = Front(s.Bodies[a + 1].torqueExternalPntB_B) ]

\* Lines 638-639.
ReplayStored(s, a) ==
    [ s EXCEPT !.forceExternal_N = Back(s.Bodies[a + 1].forceExternal_N),
               !.torqueExternalPntB_B = Back(s.Bodies[a + 1].torqueExternalPntB_B) ]

\* Records the step without setting lockedToRand.
EmptyManifold_NoLock(s, currentTime, timeStep) ==
    [ s EXCEPT !.timeFound = currentTime + timeStep,
               !.integrateTimeStep = timeStep ]

\* Lines 995-1001.
EmptyManifold(s, currentTime, timeStep) ==
    [ s EXCEPT !.lockedToRand = TRUE,
               !.timeFound = currentTime + timeStep,
               !.integrateTimeStep = timeStep ]

\* The lock alone, whatever step it was set for.
LockedApplies_AnyStep(s, timeStep) ==
    s.lockedToRand

\* Lines 1002-1004.
LockedApplies(s, timeStep) ==
    s.lockedToRand /\ timeStep = s.integrateTimeStep

\* The draws without the offset of 1000.
RandomResponse_NoOffset(s, draw, timeStep) ==
    [ s EXCEPT !.forceExternal_N =
                   Quot(<< draw[1] % RandModulus, draw[2] % RandModulus,
                           draw[3] % RandModulus >>, timeStep),
               !.torqueExternalPntB_B =
                   Quot(<< draw[4] % RandModulus, draw[5] % RandModulus,
                           draw[6] % RandModulus >>, timeStep) ]

\* Lines 1006-1011, 1018-1023, 1201-1206, 1229-1234.
RandomResponse(s, draw, timeStep) ==
    [ s EXCEPT !.forceExternal_N =
                   Quot(<< (draw[1] % RandModulus) + RandOffset,
                           (draw[2] % RandModulus) + RandOffset,
                           (draw[3] % RandModulus) + RandOffset >>, timeStep),
               !.torqueExternalPntB_B =
                   Quot(<< (draw[4] % RandModulus) + RandOffset,
                           (draw[5] % RandModulus) + RandOffset,
                           (draw[6] % RandModulus) + RandOffset >>, timeStep) ]

\* The rejection values without setting lockedToRand.
OverErrorResponse_NoLock(s, currentTime, timeStep, draw) ==
    [ RandomResponse(s, draw, timeStep) EXCEPT
          !.timeFound = currentTime + timeStep,
          !.integrateTimeStep = timeStep ]

\* Lines 1016-1028.
OverErrorResponse(s, currentTime, timeStep, draw) ==
    [ RandomResponse(s, draw, timeStep) EXCEPT
          !.lockedToRand = TRUE,
          !.timeFound = currentTime + timeStep,
          !.integrateTimeStep = timeStep ]

\* Lines 1144-1151: the impulses summed into the two bodies' forces and torques.
ForceOnA(impacts, timeStep) ==
    Quot(SumVec([ k \in 1..Len(impacts) |-> impacts[k].impulse ]), timeStep)

TorqueOnA(impacts, a, timeStep) ==
    Quot(SumVec([ k \in 1..Len(impacts) |->
                    MatVec(dcm_BN(a), Cross(impacts[k].armA, impacts[k].impulse)) ]),
         timeStep)

ImpulseOnB(impacts) ==
    Quot(VecNeg(SumVec([ k \in 1..Len(impacts) |-> impacts[k].impulse ])), 1)

AngularImpulseOnB(impacts, b) ==
    Quot(VecNeg(SumVec([ k \in 1..Len(impacts) |->
                    MatVec(dcm_BN(b), Cross(impacts[k].armB, impacts[k].impulse)) ])), 1)

\* Lines 1029-1165: the solve, and the answer stored for both bodies.
SolveAndStore(s, a, b, impacts, currentMaxError, currentTime, timeStep) ==
    LET s1 == [ s EXCEPT !.forceExternal_N = ForceOnA(impacts, timeStep),
                         !.torqueExternalPntB_B = TorqueOnA(impacts, a, timeStep) ]
        bodiesA == [ s1.Bodies EXCEPT
                       ![a + 1].forceExternal_N = Append(@, s1.forceExternal_N),
                       ![a + 1].torqueExternalPntB_B = Append(@, s1.torqueExternalPntB_B) ]
        bodiesB == [ bodiesA EXCEPT
                       ![b + 1].forceExternal_N = Append(@, ImpulseOnB(impacts)),
                       ![b + 1].torqueExternalPntB_B = Append(@, AngularImpulseOnB(impacts, b)),
                       ![b + 1].impactTimes = Append(@, currentTime),
                       ![b + 1].impactTimeSteps = Append(@, timeStep) ]
    IN  IF currentMaxError <= maxPosError
        THEN [ s1 EXCEPT !.responseFound = TRUE,
                         !.timeFound = currentTime + timeStep,
                         !.integrateTimeStep = timeStep,
                         !.Bodies = bodiesB ]
        ELSE s1

\* Lines 634-1165: the first close pair whose A is the current body.
FirstLoop(s, g, currentTime, timeStep, draw) ==
    LET a == s.closeBodies[g][1]
        b == s.closeBodies[g][2]
        pair == << a, b >>
        np == NarrowPhase(IteratedCandidates(s.Bodies, scene, a, b, currentTime, timeStep))
        n == Len(np.impacts)
        e == np.currentMaxError
        fine == [ s EXCEPT !.currentMinError = np.currentMinError ]
        locked == LockedApplies(fine, timeStep)
        unlocked == [ fine EXCEPT !.lockedToRand = FALSE ]
    IN  IF s.responseFound
        THEN IF ResponseApplies(s, currentTime, timeStep)
             THEN Outcome(ReplayStored(s, a), "replayA", pair, -1, 0)
             ELSE Outcome([ s EXCEPT !.responseFound = FALSE ], "resetA", pair,
                          -1, 0)
        ELSE IF n = 0
        THEN Outcome(EmptyManifold(fine, currentTime, timeStep), "empty", pair,
                     n, e)
        ELSE IF locked
        THEN Outcome(RandomResponse(fine, draw, timeStep), "lockedRand", pair,
                     n, e)
        ELSE IF e > maxPosError
        THEN Outcome(OverErrorResponse(unlocked, currentTime, timeStep, draw),
                     "overRand", pair, n, e)
        ELSE Outcome(SolveAndStore(unlocked, a, b, np.impacts, e, currentTime, timeStep),
                     "solved", pair, n, e)

\* Delivers the newest entry of B's queue instead of the oldest.
DeliverQueued_Newest(s, b) ==
    [ s EXCEPT !.forceExternal_N =
                   Quot(Back(s.Bodies[b + 1].forceExternal_N).num,
                        Back(s.Bodies[b + 1].forceExternal_N).den * s.integrateTimeStep),
               !.torqueExternalPntB_B =
                   Quot(Back(s.Bodies[b + 1].torqueExternalPntB_B).num,
                        Back(s.Bodies[b + 1].torqueExternalPntB_B).den * s.integrateTimeStep) ]

\* Lines 1185-1186 and 1218-1219: the head of B's queue over the step.
DeliverQueued(s, b) ==
    [ s EXCEPT !.forceExternal_N =
                   Quot(Front(s.Bodies[b + 1].forceExternal_N).num,
                        Front(s.Bodies[b + 1].forceExternal_N).den * s.integrateTimeStep),
               !.torqueExternalPntB_B =
                   Quot(Front(s.Bodies[b + 1].torqueExternalPntB_B).num,
                        Front(s.Bodies[b + 1].torqueExternalPntB_B).den * s.integrateTimeStep) ]

\* Lines 1189-1193.
DropDelivered(s, b) ==
    [ s EXCEPT !.responseFound = FALSE,
               !.Bodies[b + 1].forceExternal_N = EraseFront(@),
               !.Bodies[b + 1].torqueExternalPntB_B = EraseFront(@),
               !.Bodies[b + 1].impactTimes = EraseFront(@),
               !.Bodies[b + 1].impactTimeSteps = EraseFront(@) ]

\* Lines 1169-1237: the close pairs whose B is the current body, from pair g on.
RECURSIVE SecondLoop(_, _, _, _, _)
SecondLoop(s, g, currentTime, timeStep, draw) ==
    IF g > Len(s.closeBodies)
    THEN Outcome(s, "none", NoPair, -1, 0)
    ELSE LET a == s.closeBodies[g][1]
             b == s.closeBodies[g][2]
             pair == << a, b >>
             body == s.Bodies[b + 1]
             unlocked == [ s EXCEPT !.lockedToRand = FALSE ]
             found == [ unlocked EXCEPT !.responseFound = TRUE,
                                        !.timeFound = currentTime + timeStep,
                                        !.integrateTimeStep = timeStep ]
             late == [ RandomResponse(unlocked, draw, timeStep) EXCEPT
                           !.lockedToRand = TRUE,
                           !.timeFound = currentTime + timeStep,
                           !.integrateTimeStep = timeStep ]
         IN  IF b # s.currentBodyInCycle
             THEN SecondLoop(s, g + 1, currentTime, timeStep, draw)
             ELSE IF body.forceExternal_N = << >>
             THEN Outcome(s, "emptyQueue", pair, -1, 0)
             ELSE IF s.responseFound
             THEN IF ResponseApplies(s, currentTime, timeStep)
                  THEN Outcome(DeliverQueued(s, b), "replayB", pair, -1, 0)
                  ELSE Outcome(DropDelivered(s, b), "resetB", pair, -1, 0)
             ELSE IF s.lockedToRand /\ ResponseApplies(s, currentTime, timeStep)
             THEN Outcome(RandomResponse(s, draw, timeStep), "lockedRandB", pair,
                          -1, 0)
             ELSE IF body.impactTimes = << >>
             THEN Outcome([ unlocked EXCEPT !.forceExternal_N = Indeterminate,
                                            !.torqueExternalPntB_B = Indeterminate ],
                          "undefined", pair, -1, 0)
             ELSE IF /\ currentTime = body.impactTimes[1]
                     /\ timeStep = body.impactTimeSteps[1]
             THEN Outcome(DeliverQueued(found, b), "matchB", pair, -1, 0)
             ELSE IF currentTime + timeStep > body.impactTimes[1]
             THEN Outcome(late, "lateRandB", pair, -1, 0)
             ELSE SecondLoop(unlocked, g + 1, currentTime, timeStep, draw)

\* Lines 628-633: the first close pair whose A is the current body, 0 if none.
FirstGroupOf(s) ==
    IF \E g \in 1..Len(s.closeBodies) : s.closeBodies[g][1] = s.currentBodyInCycle
    THEN CHOOSE g \in 1..Len(s.closeBodies) :
            /\ s.closeBodies[g][1] = s.currentBodyInCycle
            /\ \A h \in 1..(g - 1) : s.closeBodies[h][1] # s.currentBodyInCycle
    ELSE 0

\* computeForceTorque(currentTime, timeStep) on the members s.
ComputeForceTorque(s, currentTime, timeStep, draw, oobIsSpice) ==
    LET begun == BeginCall(s, currentTime, timeStep, oobIsSpice)
        g == FirstGroupOf(begun)
    IN  IF g # 0
        THEN FirstLoop(begun, g, currentTime, timeStep, draw)
        ELSE SecondLoop(begun, 1, currentTime, timeStep, draw)

-----------------------------------------------------------------------------
(* The effector between the simulation's task and the integrator            *)

\* The macro steps the simulation runs.
MaxSimSeconds == 2

\* The bodies LoadSpacecraftBody and AddSpiceBody added, by isSpice.
BodyConfigs ==
    { << FALSE, FALSE >>, << FALSE, TRUE >>, << TRUE, FALSE >> }

RECURSIVE PairsInOrder(_)
PairsInOrder(S) ==
    IF S = {} THEN << >>
    ELSE LET p == CHOOSE p \in S :
                     \A q \in S : p[1] < q[1] \/ (p[1] = q[1] /\ p[2] <= q[2])
         IN  << p >> \o PairsInOrder(S \ { p })

\* Lines 1385-1407: the pairs bodyIt1 < bodyIt2 whose spheres touch, in loop order.
CheckBoundingSphere(numBodies) ==
    { PairsInOrder(S) :
        S \in SUBSET { p \in (0..(numBodies - 1)) \X (0..(numBodies - 1)) : p[1] < p[2] } }

\* Some output queue is longer in after than in before.
Appended(before, after) ==
    \E i \in 1..Len(before) :
        \/ Len(after[i].forceExternal_N) > Len(before[i].forceExternal_N)
        \/ Len(after[i].torqueExternalPntB_B) > Len(before[i].torqueExternalPntB_B)
        \/ Len(after[i].impactTimes) > Len(before[i].impactTimes)
        \/ Len(after[i].impactTimeSteps) > Len(before[i].impactTimeSteps)

NoCall ==
    [ op |-> "none", currentTime |-> 0, timeStep |-> 0, kind |-> "none",
      pair |-> NoPair, numImpacts |-> -1, currentMaxError |-> 0, locked |-> FALSE,
      appended |-> FALSE ]

\* Lines 31-41, then the bodies of one of the configurations added.  The
\* constructor leaves responseFound, lockedToRand and secondInter unset.
Constructed(configs, seconds) ==
    /\ \E cfg \in configs : Bodies = [ i \in 1..Len(cfg) |-> NewBody(cfg[i]) ]
    /\ closeBodies = << >>
    /\ currentSimSeconds = seconds
    /\ currentBodyInCycle = -1
    /\ currentMinError = 0
    /\ responseFound \in BOOLEAN
    /\ lockedToRand \in BOOLEAN
    /\ secondInter \in BOOLEAN
    /\ timeFound = 0
    /\ integrateTimeStep = 0
    /\ newMacroTimeStep = TRUE
    /\ topTime = 0
    /\ topTimeStep = 0
    /\ forceExternal_N = ZeroQuot
    /\ torqueExternalPntB_B = ZeroQuot
    /\ scene = [ contactTime |-> 0, pattern |-> 2, closing |-> 0, overlaps |-> << >> ]
    /\ last = NoCall
    /\ repeat = "no"
    /\ reported = {}
    /\ IntervalIdle
    /\ MeshIdle
    /\ HarnessIdle

Init == Constructed(BodyConfigs, 0)

\* Lines 50-58.
Reset ==
    /\ forceExternal_N' = ZeroQuot
    /\ torqueExternalPntB_B' = ZeroQuot
    /\ currentBodyInCycle' = -1
    /\ last' = [ NoCall EXCEPT !.op = "Reset" ]
    /\ repeat' = "no"
    /\ UNCHANGED << Bodies, closeBodies, currentSimSeconds, currentMinError,
                    responseFound, lockedToRand,
                    timeFound, integrateTimeStep, newMacroTimeStep, topTime, topTimeStep,
                    secondInter, scene, reported, intervalVars, meshVars, harnessVars >>

\* Clears the force and torque queues only.
ClearQueues_KeepTimes(bodies) ==
    [ i \in 1..Len(bodies) |->
        [ bodies[i] EXCEPT !.forceExternal_N = << >>, !.torqueExternalPntB_B = << >> ] ]

\* Clears the impact time queues only.
ClearQueues_KeepForces(bodies) ==
    [ i \in 1..Len(bodies) |->
        [ bodies[i] EXCEPT !.impactTimes = << >>, !.impactTimeSteps = << >> ] ]

\* Lines 1295-1300.
ClearQueues(bodies) ==
    [ i \in 1..Len(bodies) |->
        [ bodies[i] EXCEPT !.forceExternal_N = << >>, !.torqueExternalPntB_B = << >>,
                           !.impactTimes = << >>, !.impactTimeSteps = << >> ] ]

\* Lines 1427-1484: for every close pair in order, the cluster pairs no axis
\* separates; body A's coarseSearchList is written only when there are some.
\* accepted is what the 15 tests let through for the states of this step.
RECURSIVE CheckBoundingBox(_, _, _)
CheckBoundingBox(bodies, close, accepted) ==
    IF close = << >> THEN bodies
    ELSE LET layer1Box == [ parentIndices |-> Head(close), overlaps |-> accepted ]
             A == Head(close)[1] + 1
         IN  CheckBoundingBox(
                IF Len(layer1Box.overlaps) > 0
                THEN [ bodies EXCEPT ![A].coarseSearchList = layer1Box ]
                ELSE bodies,
                Tail(close), accepted)

\* Lines 1283-1320; the messages read give the scene of the coming step.
UpdateState ==
    /\ currentSimSeconds < MaxSimSeconds
    /\ currentSimSeconds' = currentSimSeconds + 1
    /\ currentMinError' = UpdateMinError
    /\ responseFound' = FALSE
    /\ lockedToRand' = FALSE
    /\ newMacroTimeStep' = TRUE
    /\ currentBodyInCycle' = -1
    /\ closeBodies' \in CheckBoundingSphere(Len(Bodies))
    /\ scene' \in Scenes
    /\ Bodies' = CheckBoundingBox(ClearQueues(Bodies), closeBodies', scene'.overlaps)
    /\ last' = [ NoCall EXCEPT !.op = "UpdateState" ]
    /\ repeat' = "no"
    /\ reported' = {}
    /\ UNCHANGED << timeFound, integrateTimeStep, topTime, topTimeStep, secondInter,
                    forceExternal_N, torqueExternalPntB_B, intervalVars, meshVars, harnessVars >>

RandomKinds == { "lockedRand", "overRand", "lockedRandB", "lateRandB" }

\* Lines 523-1239, called by the integrator at (currentTime, timeStep).
computeForceTorque ==
    \E currentTime \in 0..MaxTime, timeStep \in 1..MaxStep, draw \in RandDraws,
       oobIsSpice \in IF currentBodyInCycle + 1 < Len(Bodies) THEN { FALSE } ELSE BOOLEAN :
      \E begun \in { BeginCall(Effector, currentTime, timeStep, oobIsSpice) },
         r \in { ComputeForceTorque(Effector, currentTime, timeStep, draw, oobIsSpice) } :
        LET again == /\ last.op = "computeForceTorque"
                     /\ last.currentTime = currentTime
                     /\ last.timeStep = timeStep
                     /\ currentBodyInCycle = r.s.currentBodyInCycle
        IN  /\ r.s.currentBodyInCycle <= MaxBodyInCycle
            /\ \A i \in 1..Len(Bodies) : Len(r.s.Bodies[i].forceExternal_N) <= MaxQueue
            /\ Bodies' = r.s.Bodies
            /\ closeBodies' = r.s.closeBodies
            /\ currentSimSeconds' = currentSimSeconds
            /\ currentBodyInCycle' = r.s.currentBodyInCycle
            /\ currentMinError' = r.s.currentMinError
            /\ responseFound' = r.s.responseFound
            /\ lockedToRand' = r.s.lockedToRand
            /\ timeFound' = r.s.timeFound
            /\ integrateTimeStep' = r.s.integrateTimeStep
            /\ newMacroTimeStep' = r.s.newMacroTimeStep
            /\ topTime' = r.s.topTime
            /\ topTimeStep' = r.s.topTimeStep
            /\ secondInter' = r.s.secondInter
            /\ forceExternal_N' = r.s.forceExternal_N
            /\ torqueExternalPntB_B' = r.s.torqueExternalPntB_B
            /\ last' = [ op |-> "computeForceTorque", currentTime |-> currentTime,
                         timeStep |-> timeStep,
                         kind |-> r.kind, pair |-> r.pair, numImpacts |-> r.numImpacts,
                         currentMaxError |-> r.currentMaxError,
                         locked |-> begun.lockedToRand
                                        /\ begun.integrateTimeStep = timeStep,
                         appended |-> Appended(Bodies, r.s.Bodies) ]
            /\ repeat' = IF ~again THEN "no"
                         ELSE IF last.kind \in RandomKinds \/ repeat = "ofRandom"
                         THEN "ofRandom"
                         ELSE IF last.kind = "solved" \/ repeat = "ofSolve"
                         THEN "ofSolve"
                         ELSE "no"
            /\ reported' = IF r.kind = "solved"
                           THEN reported \cup { [ body |-> r.pair[1],
                                                  currentTime |-> currentTime,
                                                  timeStep |-> timeStep,
                                                  force |-> r.s.forceExternal_N,
                                                  torque |-> r.s.torqueExternalPntB_B ] }
                           ELSE reported
            /\ UNCHANGED << scene, intervalVars, meshVars, harnessVars >>

Next == UpdateState \/ computeForceTorque \/ Reset

Spec == Init /\ [][Next]_vars

\* Two kinematic bodies added before a dynamic one.
KinematicConfigs == { << TRUE, TRUE, FALSE >> }

\* The simulation of the three bodies starts one macro step before the end.
InitKinematic == Constructed(KinematicConfigs, MaxSimSeconds - 1)

SpecKinematic == InitKinematic /\ [][Next]_vars

-----------------------------------------------------------------------------
(* Properties of computeForceTorque                                         *)

\* The last operation was a call, and its fine collision detection ran.
FineRan == last.op = "computeForceTorque" /\ last.numImpacts >= 0

\* q is a step-rejection value for the step dt: every component n/dt with n from lo to hi.
StepRejection(q, dt, lo, hi) ==
    /\ q.den = dt
    /\ \A i \in 1..3 : q.num[i] \in lo..hi

\* The last call delivered queued impulses to body B of the pair it names.
Delivered == last.op = "computeForceTorque" /\ last.kind \in { "matchB", "replayB" }

\* C3: when both bodies of a close pair are dynamic, the force delivered to
\* body B times the step of B's call is the negative of the force reported to
\* body A times the step of A's call at the same (t, dt).
C3_EqualOpposite ==
    Delivered /\ ~Bodies[last.pair[1] + 1].isSpice /\ ~Bodies[last.pair[2] + 1].isSpice
        => \A r \in reported :
               (r.body = last.pair[1] /\ r.currentTime = last.currentTime
                                      /\ r.timeStep = last.timeStep)
                   => \A i \in 1..3 :
                          forceExternal_N.num[i] * last.timeStep * r.force.den
                              = (0 - r.force.num[i]) * r.timeStep * forceExternal_N.den

\* The fine detection of the last call ended with a non-empty manifold whose
\* currentMaxError is within maxPosError.
ValidManifold == FineRan /\ last.numImpacts > 0 /\ last.currentMaxError <= maxPosError

\* The outputs are the answer of a solve that the last call stored for body A.
SolvedReported ==
    /\ last.appended
    /\ responseFound
    /\ forceExternal_N = Back(Bodies[last.pair[1] + 1].forceExternal_N)
    /\ torqueExternalPntB_B = Back(Bodies[last.pair[1] + 1].torqueExternalPntB_B)
    /\ \E r \in reported :
          /\ r.body = last.pair[1]
          /\ r.currentTime = last.currentTime /\ r.timeStep = last.timeStep
          /\ r.force = forceExternal_N /\ r.torque = torqueExternalPntB_B
    /\ ~StepRejection(forceExternal_N, last.timeStep, 1000, 2000)

\* The outputs are step-rejection values, and nothing was appended.
Rejected ==
    /\ StepRejection(forceExternal_N, last.timeStep, 1000, 1999)
    /\ StepRejection(torqueExternalPntB_B, last.timeStep, 1000, 1999)
    /\ ~last.appended

\* C6 as stated: whenever the fine detection for body A ends with a non-empty
\* manifold whose currentMaxError <= maxPosError, the call runs the solve and
\* reports the solved force and torque, never the step-rejection values.
C6_ValidManifoldSolved == ValidManifold => SolvedReported

\* C6 amended: such a call reports the solved force and torque unless
\* lockedToRand is set with integrateTimeStep equal to the call's step; then it
\* reports step-rejection values and stores nothing.
C6_ValidManifoldSolvedUnlessLocked ==
    ValidManifold => IF last.locked THEN Rejected ELSE SolvedReported

C6_Witness == ValidManifold /\ ~last.locked /\ SolvedReported /\ last.numImpacts = 2

C8_RepeatReplaysSolve ==
    [][ \A r \in reported :
            ( /\ last'.op = "computeForceTorque"
              /\ last'.currentTime = r.currentTime /\ last'.timeStep = r.timeStep
              /\ last'.pair[1] = r.body
              /\ currentBodyInCycle = r.body /\ currentBodyInCycle' = r.body )
                => /\ forceExternal_N' = r.force
                   /\ torqueExternalPntB_B' = r.torque
                   /\ Bodies' = Bodies ]_vars

\* C8 amended: a call that directly repeats the solve for body A, at the same
\* (t, dt) and with A still the current body, or directly repeats such a
\* repeat, returns the force and torque of that solve and changes no queue.
C8_DirectRepeatReplaysSolve ==
    [][ repeat' = "ofSolve"
            => /\ forceExternal_N' = forceExternal_N
               /\ torqueExternalPntB_B' = torqueExternalPntB_B
               /\ Bodies' = Bodies
               /\ last'.numImpacts = -1 ]_vars

C8_Witness ==
    /\ repeat = "ofSolve"
    /\ Len(Bodies[last.pair[1] + 1].forceExternal_N) = 2
    /\ forceExternal_N = Back(Bodies[last.pair[1] + 1].forceExternal_N)
    /\ forceExternal_N # Front(Bodies[last.pair[1] + 1].forceExternal_N)

\* C9: when the fine detection for body A ends with an empty manifold, the call
\* reports zero force and torque, sets lockedToRand, records timeFound and
\* integrateTimeStep for this (t, dt), and appends nothing.
C9_EmptyManifold ==
    FineRan /\ last.numImpacts = 0
        => /\ forceExternal_N = ZeroQuot
           /\ torqueExternalPntB_B = ZeroQuot
           /\ lockedToRand
           /\ timeFound = last.currentTime + last.timeStep
           /\ integrateTimeStep = last.timeStep
           /\ ~last.appended

C9_Witness == FineRan /\ last.numImpacts = 0 /\ lockedToRand /\ last.currentTime = 1

\* C10: when the fine detection ends with a non-empty manifold and
\* currentMaxError > maxPosError, every component of the reported force and
\* torque is n/dt with 1000 <= n <= 2000, lockedToRand is set, and nothing is
\* appended.
C10_OverError ==
    FineRan /\ last.numImpacts > 0 /\ last.currentMaxError > maxPosError
        => /\ StepRejection(forceExternal_N, last.timeStep, 1000, 2000)
           /\ StepRejection(torqueExternalPntB_B, last.timeStep, 1000, 2000)
           /\ lockedToRand
           /\ ~last.appended

C10_Witness ==
    /\ FineRan /\ last.numImpacts > 0 /\ last.currentMaxError > maxPosError
    /\ last.kind = "overRand"
    /\ lockedToRand

\* C11 (as claimed): the body that is body A when the fine detection and the
\* solve run, the body whose index is currentBodyInCycle, is never kinematic.
C11_ANeverKinematic ==
    FineRan => /\ last.pair[1] = currentBodyInCycle
               /\ ~Bodies[last.pair[1] + 1].isSpice

\* after is before with nothing changed, its first entry erased, or one entry
\* pushed at the back.
FrontErasedOrPushed(before, after) ==
    \/ after = before
    \/ before # << >> /\ after = Tail(before)
    \/ Len(after) = Len(before) + 1 /\ SubSeq(after, 1, Len(before)) = before

\* The oldest entry of a queue of impulses, over the step dt.
OldestOver(q, dt) == Quot(q[1].num, q[1].den * dt)

\* C12: impulses queued for body B are delivered in FIFO order with matching
\* times.  In every call, every queue of every body keeps its entries, loses
\* its first entry or gains one at the back.  A call answered for the current
\* body as body B reports zero, step-rejection values, or the oldest entry of
\* B's queue over the step; and the oldest entry is reported only on a call
\* whose t and dt are the time and step recorded with it, or on a call that
\* directly follows a delivery of that same entry.
C12_Fifo ==
    [][ last'.op = "computeForceTorque" =>
          /\ \A i \in 1..Len(Bodies) :
                /\ FrontErasedOrPushed(Bodies[i].forceExternal_N, Bodies'[i].forceExternal_N)
                /\ FrontErasedOrPushed(Bodies[i].torqueExternalPntB_B,
                                       Bodies'[i].torqueExternalPntB_B)
                /\ FrontErasedOrPushed(Bodies[i].impactTimes, Bodies'[i].impactTimes)
                /\ FrontErasedOrPushed(Bodies[i].impactTimeSteps, Bodies'[i].impactTimeSteps)
          /\ (last'.pair # NoPair /\ last'.pair[2] = currentBodyInCycle') =>
                LET b == Bodies[last'.pair[2] + 1]
                    rejected == /\ StepRejection(forceExternal_N', last'.timeStep, 1000, 1999)
                                /\ StepRejection(torqueExternalPntB_B', last'.timeStep,
                                                 1000, 1999)
                    nothing == /\ forceExternal_N' = ZeroQuot
                               /\ torqueExternalPntB_B' = ZeroQuot
                    oldest == /\ b.forceExternal_N # << >>
                              /\ b.torqueExternalPntB_B # << >>
                              /\ forceExternal_N' =
                                     OldestOver(b.forceExternal_N, last'.timeStep)
                              /\ torqueExternalPntB_B' =
                                     OldestOver(b.torqueExternalPntB_B, last'.timeStep)
                              /\ Bodies' = Bodies
                    matching == /\ b.impactTimes # << >>
                                /\ b.impactTimeSteps # << >>
                                /\ last'.currentTime = b.impactTimes[1]
                                /\ last'.timeStep = b.impactTimeSteps[1]
                    again == /\ Delivered
                             /\ last.pair[2] = last'.pair[2]
                IN  /\ rejected \/ nothing \/ oldest
                    /\ ~rejected /\ ~nothing => matching \/ again ]_vars

C12_Witness ==
    /\ Delivered
    /\ last.kind = "matchB"
    /\ Len(Bodies[last.pair[2] + 1].forceExternal_N) = 2
    /\ Front(Bodies[last.pair[2] + 1].forceExternal_N)
           # Back(Bodies[last.pair[2] + 1].forceExternal_N)
    /\ forceExternal_N = OldestOver(Bodies[last.pair[2] + 1].forceExternal_N, last.timeStep)

\* C13: every UpdateState sets newMacroTimeStep, clears responseFound and
\* lockedToRand, resets currentBodyInCycle to -1 and empties the four queues
\* of every body; and an impulse delivered to a body B is the reaction of a
\* solve reported since the last UpdateState, never one of an earlier macro step.
C13_MacroStepStartsClean ==
    /\ last.op = "UpdateState" =>
          /\ newMacroTimeStep
          /\ ~responseFound
          /\ ~lockedToRand
          /\ currentBodyInCycle = -1
          /\ \A i \in 1..Len(Bodies) :
                /\ Bodies[i].forceExternal_N = << >>
                /\ Bodies[i].torqueExternalPntB_B = << >>
                /\ Bodies[i].impactTimes = << >>
                /\ Bodies[i].impactTimeSteps = << >>
    /\ Delivered =>
          \E r \in reported :
              /\ r.body = last.pair[1]
              /\ forceExternal_N.num = VecNeg(r.force.num)
              /\ r.force.den = r.timeStep

\* The second UpdateState, right after a call that delivered a queued impulse:
\* the outputs still hold the reaction of a solve, the queues are empty.
C13_Witness ==
    /\ last.op = "UpdateState"
    /\ currentSimSeconds = 2
    /\ forceExternal_N.num[3] < 0
    /\ ~responseFound
    /\ \A i \in 1..Len(Bodies) : Bodies[i].forceExternal_N = << >>

-----------------------------------------------------------------------------
(* The collision integration loop of computeForceTorque.                   *)
(*                                                                         *)
(* Quantities are integers in units that make the RK4 arithmetic exact:    *)
(* the step is 6 units long, velocities and the entries of M_tot are       *)
(* integers, velocities are even, and the 1e-14 perturbation of the        *)
(* restitution energy is 1, which is smaller than every difference of two  *)
(* energies the integration can produce.  The tangential velocity of each  *)
(* contact lies on the first axis of its contact frame and the tangential  *)
(* rows of M_tot are diagonal, so that cos(phi) and sin(phi) are -1, 0, 1. *)

\* hard cap on the number of loops: 1e9 in the source
loopMax == 4

collisionIntegrationStep == 6

\* the 1e-14 of the initial perturbation
EnergySeed == 1

MaxContacts == 2

\* X_c holds, for numImpacts contacts, 3 velocities each, then 3 impulses
\* each, then the compression and restitution energies of each.
NumImpactsOf(X) == Len(X) \div 8

Velocity(X, impNum, i) == X[impNum * 3 + i]

Impulse(X, impNum, i) == X[NumImpactsOf(X) * 3 + impNum * 3 + i]

CompressionEnergy(X, impNum) == X[NumImpactsOf(X) * 6 + impNum * 2 + 1]

RestitutionEnergy(X, impNum) == X[NumImpactsOf(X) * 6 + impNum * 2 + 2]

\* X_c(6n + 2k + 1) < -1.0 * (pow(coefRes, 2.0) * X_c(6n + 2k)): the contact
\* has not yet given back its share of the compression energy.
EnergyNotMet(X, impNum, coefRes) ==
    RestitutionEnergy(X, impNum) < -1 * ((coefRes * coefRes) * CompressionEnergy(X, impNum))

EnergyNotMet_Inverted(X, impNum, coefRes) ==
    RestitutionEnergy(X, impNum) >= -1 * ((coefRes * coefRes) * CompressionEnergy(X, impNum))

\* cos(atan2(y, x)) and sin(atan2(y, x)) for a vector on an axis; atan2(0, 0)
\* is 0.
CosPhi(y, x) ==
    CASE y = 0 /\ x >= 0 -> 1
      [] y = 0 /\ x < 0 -> -1
      [] x = 0 /\ y # 0 -> 0

SinPhi(y, x) ==
    CASE y = 0 -> 0
      [] x = 0 /\ y > 0 -> 1
      [] x = 0 /\ y < 0 -> -1

DotN(a, b) == LET RECURSIVE Sum(_)
                  Sum(i) == IF i = 0 THEN 0 ELSE a[i] * b[i] + Sum(i - 1)
              IN Sum(Len(a))

CollisionStateDerivative_DoubleFriction(X, M_tot, coefRes, coefFric) ==
    LET n == NumImpactsOf(X)
        impulseRate == [ j \in 1..(3 * n) |->
            LET impNum == (j - 1) \div 3
                i == ((j - 1) % 3) + 1
            IN IF EnergyNotMet(X, impNum, coefRes)
               THEN CASE i = 1 -> -2 * coefFric * CosPhi(Velocity(X, impNum, 2), Velocity(X, impNum, 1))
                      [] i = 2 -> -2 * coefFric * SinPhi(Velocity(X, impNum, 2), Velocity(X, impNum, 1))
                      [] i = 3 -> 1
               ELSE 0 ]
        energyRate == [ j \in 1..(2 * n) |->
            LET impNum == (j - 1) \div 2
                vn == Velocity(X, impNum, 3)
            IN IF (j - 1) % 2 = 0
               THEN IF vn < 0 THEN vn ELSE 0
               ELSE IF vn >= 0 /\ EnergyNotMet(X, impNum, coefRes) THEN vn ELSE 0 ]
    IN [ j \in 1..(3 * n) |-> DotN(M_tot[j], impulseRate) ] \o impulseRate \o energyRate

CollisionStateDerivative(X, M_tot, coefRes, coefFric) ==
    LET n == NumImpactsOf(X)
        impulseRate == [ j \in 1..(3 * n) |->
            LET impNum == (j - 1) \div 3
                i == ((j - 1) % 3) + 1
            IN IF EnergyNotMet(X, impNum, coefRes)
               THEN CASE i = 1 -> -coefFric * CosPhi(Velocity(X, impNum, 2), Velocity(X, impNum, 1))
                      [] i = 2 -> -coefFric * SinPhi(Velocity(X, impNum, 2), Velocity(X, impNum, 1))
                      [] i = 3 -> 1
               ELSE 0 ]
        energyRate == [ j \in 1..(2 * n) |->
            LET impNum == (j - 1) \div 2
                vn == Velocity(X, impNum, 3)
            IN IF (j - 1) % 2 = 0
               THEN IF vn < 0 THEN vn ELSE 0
               ELSE IF vn >= 0 /\ EnergyNotMet(X, impNum, coefRes) THEN vn ELSE 0 ]
    IN [ j \in 1..(3 * n) |-> DotN(M_tot[j], impulseRate) ] \o impulseRate \o energyRate

\* X + c * k
AddScaled(X, c, k) == [ j \in 1..Len(X) |-> X[j] + c * k[j] ] \o << >>

\* X_c + (collisionIntegrationStep / 6.0) * (k1 + 2.0 * k2 + 2.0 * k3 + k4)
RK4Combine(X, k1, k2, k3, k4) ==
    [ j \in 1..Len(X) |->
        X[j] + (collisionIntegrationStep \div 6) * (k1[j] + 2 * k2[j] + 2 * k3[j] + k4[j]) ]
       \o << >>

\* energyMet after the for loop over the contacts
AllEnergyMet(X, coefRes) ==
    \A impNum \in 0..(NumImpactsOf(X) - 1) : ~EnergyNotMet(X, impNum, coefRes)

CapReached_Never(loops) == FALSE

\* if (currLoop > loopMax)
CapReached(loops) == loops > loopMax

\* The initial collision state: the contact velocities, zero impulses, zero
\* compression energy and the perturbed restitution energy.
InitialCollisionState(vel) ==
    LET n == Len(vel)
    IN [ j \in 1..(3 * n) |-> vel[((j - 1) \div 3) + 1][((j - 1) % 3) + 1] ]
       \o [ j \in 1..(3 * n) |-> 0 ]
       \o [ j \in 1..(2 * n) |->
              IF (j - 1) % 2 = 0 THEN 0
              ELSE IF vel[((j - 1) \div 2) + 1][1] < 0 THEN -EnergySeed ELSE EnergySeed ]

\* M_tot for n contacts: the normal direction of every contact answers the
\* normal impulses with the given gains, the tangential directions answer
\* their own impulse.  Gain 0 is a pair so heavy that the velocity does not
\* move within the cap.
MassMatrix(n, own, other) ==
    [ r \in 1..(3 * n) |-> [ c \in 1..(3 * n) |->
        IF r = c THEN (IF (r - 1) % 3 = 2 THEN own ELSE 1)
        ELSE IF (r - 1) % 3 = 2 /\ (c - 1) % 3 = 2 THEN other
        ELSE 0 ] ]

ContactVelocities ==
    { << vt, 0, vn >> : vt \in { -6, 0, 6 }, vn \in { -12, -6, 6 } }

SolverInputs ==
    { [ M_tot |-> MassMatrix(Len(vel), own, other),
        coefRestitution |-> e, coefFriction |-> mu, velocity |-> vel ] :
      vel \in UNION { [ 1..n -> ContactVelocities ] : n \in 1..MaxContacts },
      own \in { 0, 1 }, other \in { 0 }, e \in { 0, 1 }, mu \in { 0, 1 } }

InitSolver ==
    /\ SolverIdle
    /\ BoxIdle
    /\ FineIdle
    /\ PredictIdle
    /\ IntervalIdle
    /\ MeshIdle
    /\ EffectorIdle

\* Create the initial collision state and enter the loop.
CreateCollisionState ==
    /\ solverPc = "idle"
    /\ solverIn' \in SolverInputs
    /\ X_c' = InitialCollisionState(solverIn'.velocity)
    /\ energyMet' = FALSE
    /\ currLoop' = 0
    /\ solverPc' = "loop"
    /\ UNCHANGED exceptSolver

\* The derivative at one RK4 stage.
Stage(X, in) == CollisionStateDerivative(X, in.M_tot, in.coefRestitution, in.coefFriction)

\* One pass through the body of while (!energyMet).
IntegrateStep ==
    /\ solverPc = "loop"
    /\ ~energyMet
    /\ currLoop' = currLoop + 1
    /\ \E k1 \in { Stage(X_c, solverIn) } :
       \E k2 \in { Stage(AddScaled(X_c, collisionIntegrationStep \div 2, k1), solverIn) } :
       \E k3 \in { Stage(AddScaled(X_c, collisionIntegrationStep \div 2, k2), solverIn) } :
       \E k4 \in { Stage(AddScaled(X_c, collisionIntegrationStep, k3), solverIn) } :
       \E X \in { RK4Combine(X_c, k1, k2, k3, k4) } :
          /\ X_c' = X
          /\ energyMet' = (AllEnergyMet(X, solverIn.coefRestitution) \/ CapReached(currLoop'))
          /\ solverPc' = IF AllEnergyMet(X, solverIn.coefRestitution) \/ CapReached(currLoop')
                         THEN "done" ELSE "loop"
    /\ UNCHANGED << solverIn, exceptSolver >>

NextSolver == CreateCollisionState \/ IntegrateStep

SpecSolver == InitSolver /\ [][NextSolver]_vars

\* The while loop runs whenever its condition holds.
SpecSolverLive == SpecSolver /\ WF_vars(IntegrateStep)

\* C14: the collision integration loop always terminates: it is left as soon
\* as, after an RK4 step, every contact has W_r >= -e^2 * W_c, and otherwise
\* as soon as the number of passes exceeds the cap.
C14_LoopTerminates ==
    /\ (solverPc = "loop") ~> (solverPc = "done")
    /\ [](solverPc = "loop" => currLoop <= loopMax)
    /\ [](solverPc = "done" =>
            \/ AllEnergyMet(X_c, solverIn.coefRestitution)
            \/ currLoop = loopMax + 1)
    /\ [](solverPc = "loop" /\ currLoop > 0 =>
            ~AllEnergyMet(X_c, solverIn.coefRestitution))

\* The loop was left by the cap, with a contact still short of its energy.
C14_Witness ==
    /\ solverPc = "done"
    /\ currLoop = loopMax + 1
    /\ ~AllEnergyMet(X_c, solverIn.coefRestitution)

\* C18: when the integration ends, the accumulated tangential impulse of each
\* contact is at most coefFriction times its accumulated normal impulse.
C18_FrictionCone ==
    solverPc = "done" =>
        \A impNum \in 0..(NumImpactsOf(X_c) - 1) :
            /\ Impulse(X_c, impNum, 3) >= 0
            /\ Impulse(X_c, impNum, 1) * Impulse(X_c, impNum, 1)
                 + Impulse(X_c, impNum, 2) * Impulse(X_c, impNum, 2)
               <= (solverIn.coefFriction * solverIn.coefFriction)
                    * (Impulse(X_c, impNum, 3) * Impulse(X_c, impNum, 3))

\* The integration ended with friction applied: in one contact the friction
\* kept its direction, in another run it turned around on the way.
C18_Witness ==
    /\ solverPc = "done"
    /\ solverIn.coefFriction = 1
    /\ \E impNum \in 0..(NumImpactsOf(X_c) - 1) :
          /\ Impulse(X_c, impNum, 1) # 0
          /\ Abs(Impulse(X_c, impNum, 1)) < Impulse(X_c, impNum, 3)

-----------------------------------------------------------------------------
(* More claims about ComputeHalfEdge                                       *)

\* The vertex indices of a cluster's triangles.
ClusterVertices(cl) ==
    { cl.faceTriangles[i][k] : i \in 1..Len(cl.faceTriangles), k \in 1..3 }

\* The square of the largest distance between two vertices of the cluster.
DiameterSq(cl) ==
    LET d == { DistSq(At(vertices, u), At(vertices, v)) :
                 u \in ClusterVertices(cl), v \in ClusterVertices(cl) }
    IN  CHOOSE x \in d : \A y \in d : x >= y

WithinLimit(cl) == DiameterSq(cl) <= maxBoundingBoxDim * maxBoundingBoxDim

\* C15 (as claimed): in every cluster the largest distance between two
\* vertices of its faces is at most maxBoundingBoxDim.
C15_DiameterBounded ==
    Returned =>
        \A c \in 1..Len(polyhedron.polyhedron) : WithinLimit(polyhedron.polyhedron[c])

\* C15 (amended): a cluster is larger than maxBoundingBoxDim only if it is a
\* single triangle, which is then itself larger than maxBoundingBoxDim.
C15_DiameterBoundedUnlessOneFace ==
    Returned =>
        \A c \in 1..Len(polyhedron.polyhedron) :
            \/ WithinLimit(polyhedron.polyhedron[c])
            \/ Len(polyhedron.polyhedron[c].faceTriangles) = 1

\* A cluster of several faces was closed because every adjacent face would
\* have made it too large: some clusters have several faces, and there is more
\* than one cluster.
C15_Witness ==
    /\ Returned
    /\ Len(polyhedron.polyhedron) > 1
    /\ \E c \in 1..Len(polyhedron.polyhedron) :
          /\ Len(polyhedron.polyhedron[c].faceTriangles) > 1
          /\ WithinLimit(polyhedron.polyhedron[c])

\* The number of places of vertex index v in the uniqueVertIndices lists.
PlacesOfVertex(poly, v) ==
    { << c, i >> \in (1..Len(poly)) \X (1..Len(vertices)) :
        i <= Len(poly[c].uniqueVertIndices) /\ poly[c].uniqueVertIndices[i] = v }

\* C16: after ComputeHalfEdge every vertex index used by a triangle of the
\* body is in the uniqueVertIndices of exactly one cluster, once.
C16_VertexOnce ==
    Returned =>
        \A i \in 1..Len(AllFaces(shapes)) : \A k \in 1..3 :
            Cardinality(PlacesOfVertex(polyhedron.polyhedron, AllFaces(shapes)[i][k])) = 1

\* Two clusters have triangles with a common vertex, listed by one of them.
C16_Witness ==
    /\ Returned
    /\ \E c \in 1..Len(polyhedron.polyhedron), d \in 1..Len(polyhedron.polyhedron) :
          /\ c # d
          /\ \E v \in ClusterVertices(polyhedron.polyhedron[c])
                        \cap ClusterVertices(polyhedron.polyhedron[d]) :
                Cardinality(PlacesOfVertex(polyhedron.polyhedron, v)) = 1

-----------------------------------------------------------------------------
(* The mid-phase test of CheckBoundingBox for one pair of cluster boxes    *)

SeparatingPlane_Signed(displacementInterval, candidateInterval, box1, box2) ==
    LET reach(v) == LET tempInterval == IntervalDotProduct(candidateInterval, v)
                    IN  Max2(Abs(tempInterval[1]), Abs(tempInterval[2]))
        signed == LET tempInterval == IntervalDotProduct(candidateInterval, displacementInterval)
                  IN  Max2(tempInterval[1], tempInterval[2])
        rhs == box1.halfSize[1] * reach(box1.xAxisInterval)
                 + box1.halfSize[2] * reach(box1.yAxisInterval)
                 + box1.halfSize[3] * reach(box1.zAxisInterval)
                 + box2.halfSize[1] * reach(box2.xAxisInterval)
                 + box2.halfSize[2] * reach(box2.yAxisInterval)
                 + box2.halfSize[3] * reach(box2.zAxisInterval)
    IN  signed > rhs

\* SeparatingPlane: the displacement along the candidate axis is longer than
\* the two boxes reach along it.
SeparatingPlane(displacementInterval, candidateInterval, box1, box2) ==
    LET reach(v) == LET tempInterval == IntervalDotProduct(candidateInterval, v)
                    IN  Max2(Abs(tempInterval[1]), Abs(tempInterval[2]))
        lhs == reach(displacementInterval)
        rhs == box1.halfSize[1] * reach(box1.xAxisInterval)
                 + box1.halfSize[2] * reach(box1.yAxisInterval)
                 + box1.halfSize[3] * reach(box1.zAxisInterval)
                 + box2.halfSize[1] * reach(box2.xAxisInterval)
                 + box2.halfSize[2] * reach(box2.yAxisInterval)
                 + box2.halfSize[3] * reach(box2.zAxisInterval)
    IN  lhs > rhs

\* The 15 candidate axes in the order of lines 1462-1477.
CandidateAxes(box1, box2) ==
    << box1.xAxisInterval, box1.yAxisInterval, box1.zAxisInterval,
       box2.xAxisInterval, box2.yAxisInterval, box2.zAxisInterval,
       IntervalCrossProduct(box1.xAxisInterval, box2.xAxisInterval),
       IntervalCrossProduct(box1.xAxisInterval, box2.yAxisInterval),
       IntervalCrossProduct(box1.xAxisInterval, box2.zAxisInterval),
       IntervalCrossProduct(box1.yAxisInterval, box2.xAxisInterval),
       IntervalCrossProduct(box1.yAxisInterval, box2.yAxisInterval),
       IntervalCrossProduct(box1.yAxisInterval, box2.zAxisInterval),
       IntervalCrossProduct(box1.zAxisInterval, box2.xAxisInterval),
       IntervalCrossProduct(box1.zAxisInterval, box2.yAxisInterval),
       IntervalCrossProduct(box1.zAxisInterval, box2.zAxisInterval) >>

\* The number of the first axis that separates the boxes, 0 when none does
\* and the pair is pushed onto overlaps.
FirstSeparatingAxis(e) ==
    LET axes == CandidateAxes(e.box1, e.box2)
        sep == { i \in 1..15 : SeparatingPlane(e.displacementInterval, axes[i], e.box1, e.box2) }
    IN  IF sep = {} THEN 0 ELSE CHOOSE i \in sep : \A j \in sep : i <= j

\* dcm_NB * xAxis, dcm_NB * yAxis, dcm_NB * zAxis are the columns of dcm_NB.
Column(dcm, k) == << dcm[1][k], dcm[2][k], dcm[3][k] >>

\* Attitudes dcm_NB: none, a quarter turn about z, a quarter turn about x,
\* one third of a turn about the diagonal.
Attitudes ==
    { << << 1, 0, 0 >>, << 0, 1, 0 >>, << 0, 0, 1 >> >>,
      << << 0, -1, 0 >>, << 1, 0, 0 >>, << 0, 0, 1 >> >>,
      << << 1, 0, 0 >>, << 0, 0, -1 >>, << 0, 1, 0 >> >>,
      << << 0, 0, 1 >>, << 1, 0, 0 >>, << 0, 1, 0 >> >> }

\* The box of a cluster whose body turns from dcm_NB now to dcm_NB at the
\* end of the macro step.
IndivBoundingBox(now, future, halfSize) ==
    [ xAxisInterval |-> [lower |-> Column(now, 1), upper |-> Column(future, 1)],
      yAxisInterval |-> [lower |-> Column(now, 2), upper |-> Column(future, 2)],
      zAxisInterval |-> [lower |-> Column(now, 3), upper |-> Column(future, 3)],
      halfSize |-> halfSize ]

MaxHalfSize == 2

HalfSizes == { << 1, 1, 1 >>, << 1, MaxHalfSize, 1 >> }

Boxes ==
    { IndivBoundingBox(now, future, h) : now \in Attitudes, future \in Attitudes,
                                         h \in HalfSizes }

\* The displacement of the two centroids now and at the end of the step.
DisplacementIntervals ==
    { [lower |-> lo, upper |-> VecAdd(lo, move)] :
        lo \in { << 2, 0, 0 >>, << 2, 2, 1 >>, << -3, 2, 0 >> },
        move \in { << 0, 0, 0 >>, << 1, 0, 1 >> } }

\* The entry with the two bodies swapped: the boxes change places and the
\* displacement changes sign.
SwappedEntry(e) ==
    [ box1 |-> e.box2, box2 |-> e.box1,
      displacementInterval |-> [lower |-> VecNeg(e.displacementInterval.lower),
                                upper |-> VecNeg(e.displacementInterval.upper)] ]

InitBox ==
    /\ boxEntry \in [ box1 : Boxes, box2 : Boxes, displacementInterval : DisplacementIntervals ]
    /\ boxDecision = [ given |-> -1, swapped |-> -1 ]
    /\ SolverIdle
    /\ FineIdle
    /\ PredictIdle
    /\ IntervalIdle
    /\ MeshIdle
    /\ EffectorIdle

\* Lines 1431-1481 for the entry as it stands in closeBodies.
CheckEntry ==
    /\ boxDecision.given = -1
    /\ boxDecision' = [boxDecision EXCEPT !.given = FirstSeparatingAxis(boxEntry)]
    /\ UNCHANGED << boxEntry, exceptBox >>

\* Lines 1431-1481 for the entry with the bodies swapped.
CheckSwappedEntry ==
    /\ boxDecision.swapped = -1
    /\ boxDecision' = [boxDecision EXCEPT !.swapped = FirstSeparatingAxis(SwappedEntry(boxEntry))]
    /\ UNCHANGED << boxEntry, exceptBox >>

NextBox == CheckEntry \/ CheckSwappedEntry

SpecBox == InitBox /\ [][NextBox]_vars

\* C17: the mid-phase decision is symmetric: the 15-axis test accepts the
\* pair (box1, box2) with the displacement d exactly when it accepts the
\* pair (box2, box1) with the displacement -d.
C17_Symmetric ==
    (boxDecision.given # -1 /\ boxDecision.swapped # -1) =>
        ((boxDecision.given = 0) <=> (boxDecision.swapped = 0))

\* Both entries were tested and rejected, by different axes of the list;
\* the boxes are not the same and the displacement is not zero.
C17_Witness ==
    /\ boxDecision.given > 0
    /\ boxDecision.swapped > 0
    /\ boxDecision.given # boxDecision.swapped
    /\ boxEntry.box1 # boxEntry.box2

\* Both entries were tested and accepted.
C17_WitnessAccepted ==
    /\ boxDecision.given = 0
    /\ boxDecision.swapped = 0
    /\ boxEntry.box1 # boxEntry.box2

-----------------------------------------------------------------------------
(* The fine detection of one call for one close pair, candidate by         *)
(* candidate.  The impacts carry the contactError they were accepted with; *)
(* the source's tuples do not, the field is read by the properties only.   *)

\* The longest list of candidates tried.
MaxCandidates == 4

\* The contact points tried on each body; two candidates at the same point
\* are within 1e-3 of each other.
MaxPoint == 2

\* Candidates with a small and with a large contactError, found by the
\* face-vertex loops, or by the edge-edge loop with the edges separating.
FineCandidates ==
    { Candidate(k[1], pt[1], pt[2], e, k[2], 0) :
        k \in { << "faceVert", TRUE >>, << "edgeEdge", FALSE >> },
        pt \in (1..MaxPoint) \X (1..MaxPoint), e \in { 1, maxPosError + 1 } }

\* Lines 804, 819 and 946, 973-976: the candidate passes the error test and
\* is pushed onto impacts.
Added(np, c) ==
    /\ c.error <= maxPosError \/ c.error <= np.currentMinError
    /\ ~(c.kind = "edgeEdge" /\ ~c.approaching)

InitNarrow ==
    /\ fineTodo \in UNION { [ 1..n -> FineCandidates ] : n \in 1..MaxCandidates }
    /\ fineNp = NarrowPhase(<< >>)
    /\ fineOutcome = "detecting"
    /\ fineDone = << >>
    /\ SolverIdle
    /\ BoxIdle
    /\ PredictIdle
    /\ IntervalIdle
    /\ MeshIdle
    /\ EffectorIdle

\* Lines 804-829, 883-909, 947-986 for the next candidate the loops reach.
DetectCandidate ==
    /\ fineOutcome = "detecting"
    /\ fineTodo # << >>
    /\ fineNp' = StepCandidate(fineNp, Head(fineTodo))
    /\ fineTodo' = Tail(fineTodo)
    /\ fineDone' = Append(fineDone, [ cand |-> Head(fineTodo),
                                      added |-> Added(fineNp, Head(fineTodo)) ])
    /\ UNCHANGED << fineOutcome, exceptFine >>

\* Lines 993-1028 with lockedToRand clear: no impacts, an over-error
\* manifold, or the solve.
DecideOutcome ==
    /\ fineOutcome = "detecting"
    /\ fineTodo = << >>
    /\ fineOutcome' = IF Len(fineNp.impacts) = 0 THEN "empty"
                      ELSE IF fineNp.currentMaxError > maxPosError THEN "overError"
                      ELSE "solve"
    /\ UNCHANGED << fineTodo, fineNp, fineDone, exceptFine >>

NextNarrow == DetectCandidate \/ DecideOutcome

SpecNarrow == InitNarrow /\ [][NextNarrow]_vars

\* C19 (as claimed): the solve runs only when every contact left in the
\* manifold has contactError <= maxPosError: at the outcome decision
\* currentMaxError is at least the largest contactError in the manifold.
C19_SolveWithinError ==
    fineOutcome \in { "solve", "overError" } =>
        \A i \in 1..Len(fineNp.impacts) :
            fineNp.impacts[i].error <= fineNp.currentMaxError

-----------------------------------------------------------------------------
(* The cluster pairs the fine detection iterates                           *)

\* C20 (as claimed): whenever the fine detection runs for the close pair
\* (A, B), body A's coarseSearchList.overlaps is the list CheckBoundingBox
\* accepted for (A, B) in this macro step, not one left from an earlier macro
\* step or written for another body B.
C20_FreshOverlaps ==
    FineRan =>
        LET list == Bodies[last.pair[1] + 1].coarseSearchList IN
        /\ list.overlaps = scene.overlaps
        /\ list.overlaps # << >> => list.parentIndices = last.pair

-----------------------------------------------------------------------------
(* The cycle through the bodies, lines 599-624                             *)

\* The values the test of line 607 and the test of line 610 read in the next
\* call: on the first call after UpdateState lines 599-605 have just set
\* topTime and topTimeStep to the call's arguments and secondInter to false.
FoundSecondInter == IF newMacroTimeStep THEN FALSE ELSE secondInter

MatchesTop(currentTime, timeStep) ==
    IF newMacroTimeStep THEN TRUE
    ELSE currentTime = topTime /\ timeStep = topTimeStep

\* The answers that need responseFound or lockedToRand to be set when the
\* loops over the close pairs begin.
NeedsFlag == { "replayA", "resetA", "lockedRand", "replayB", "resetB", "lockedRandB" }

\* C21: on every call whose (t, dt) equals (topTime, topTimeStep) secondInter
\* flips; currentBodyInCycle advances, and responseFound and lockedToRand are
\* cleared, exactly on the matching calls that find secondInter false; a call
\* that does not match leaves currentBodyInCycle and secondInter unchanged.
C21_CycleToggle ==
    [][ last'.op = "computeForceTorque" =>
          LET matches == MatchesTop(last'.currentTime, last'.timeStep)
              advances == matches /\ ~FoundSecondInter
          IN  /\ matches => secondInter' = ~FoundSecondInter
              /\ ~matches => secondInter' = secondInter
              /\ advances => /\ currentBodyInCycle' > currentBodyInCycle
                             /\ last'.kind \notin NeedsFlag
                             /\ ~last'.locked
              /\ ~advances => currentBodyInCycle' = currentBodyInCycle ]_vars

\* The cycle has advanced twice: the second body is the current one, its call
\* matched the top step and found secondInter false, and body B's answer of
\* the first body's solve was delivered to it.
C21_Witness ==
    /\ last.op = "computeForceTorque"
    /\ last.currentTime = topTime /\ last.timeStep = topTimeStep
    /\ secondInter
    /\ currentBodyInCycle = 1
    /\ last.kind = "matchB"

\* C22 (as claimed): whenever Bodies[currentBodyInCycle] is read, which is at
\* line 613 right after the increment of line 612, currentBodyInCycle is a
\* valid index into Bodies.
C22_ValidIndex ==
    [][ (last'.op = "computeForceTorque" /\ currentBodyInCycle' > currentBodyInCycle)
            => currentBodyInCycle + 1 \in 0..(Len(Bodies) - 1) ]_vars

-----------------------------------------------------------------------------
(* The manifold while the fine detection runs                              *)

\* The contactErrors of the candidates added so far in this call.
AddedErrors == { fineDone[i].cand.error : i \in { j \in 1..Len(fineDone) : fineDone[j].added } }

\* C23 (as claimed): once the narrow phase has added a candidate,
\* currentMinError is the smallest contactError among the candidates added so
\* far in this call.
C23_MinErrorIsBest ==
    AddedErrors # {} =>
        /\ fineNp.currentMinError \in AddedErrors
        /\ \A e \in AddedErrors : fineNp.currentMinError <= e

\* C24 (as claimed): right after a candidate is added to the manifold, no
\* other contact of the manifold has its A-point within 1e-3 of the new
\* contact's A-point or its B-point within 1e-3 of the new contact's B-point.
C24_NoNearDuplicate ==
    (fineDone # << >> /\ fineDone[Len(fineDone)].added) =>
        LET n == Len(fineNp.impacts) IN
        \A i \in 1..(n - 1) :
            /\ fineNp.impacts[i].first # fineNp.impacts[n].first
            /\ fineNp.impacts[i].second # fineNp.impacts[n].second

\* C25 (as claimed): a candidate that is not added to the manifold leaves the
\* contacts of the manifold as they were.
C25_DiscardedLeavesManifold ==
    [][ (Len(fineDone') > Len(fineDone) /\ ~fineDone'[Len(fineDone')].added)
            => fineNp'.impacts = fineNp.impacts ]_vars

-----------------------------------------------------------------------------
(* The state prediction of computeForceTorque, lines 647-703, for one      *)
(* close pair.  The positions, velocities and angular velocities are       *)
(* modelled; the predicted attitudes (sigma_BN, dcm_BN, dcm_NB) and the    *)
(* future position, which is rotated by a predicted attitude, are not.     *)

VecScale(v, k) == << v[1] * k, v[2] * k, v[3] * k >>

\* The largest currentTime - currentSimSeconds tried.
MaxElapsed == 1

\* The stored states of one body, as WriteOutputMessages/ExtractFromBuffer
\* left them.
StoredStates ==
    [ isSpice : BOOLEAN,
      r_BN_N : { ZeroVec, << 1, 0, 0 >> },
      v_BN_N : { ZeroVec, << 0, 1, 0 >> },
      dcm_NB : { << << 1, 0, 0 >>, << 0, 1, 0 >>, << 0, 0, 1 >> >>,
                 << << 0, -1, 0 >>, << 1, 0, 0 >>, << 0, 0, 1 >> >> },
      nonConservativeAccelpntB_B : { ZeroVec, << 1, 0, 0 >> },
      omega_BN_B : { ZeroVec, << 0, 0, 1 >> },
      omegaDot_BN_B : { ZeroVec, << 0, 0, 2 >> } ]

\* Lines 647-651 and 676-680 (SPICE body), 661-664 and 690-693 (spacecraft):
\* the state of a body at currentTime from the body's stored states.
PredictCurrent(st, elapsed) ==
    IF st.isSpice
    THEN [ r_BN_N |-> VecAdd(st.r_BN_N, VecScale(st.v_BN_N, elapsed)),
           v_BN_N |-> st.v_BN_N ]
    ELSE [ r_BN_N |-> VecAdd(VecAdd(st.r_BN_N, VecScale(st.v_BN_N, elapsed)),
                             MatVec(st.dcm_NB,
                                    VecScale(st.nonConservativeAccelpntB_B, elapsed * elapsed))),
           v_BN_N |-> VecAdd(st.v_BN_N,
                             MatVec(st.dcm_NB, VecScale(st.nonConservativeAccelpntB_B, elapsed))),
           omega_BN_B |-> VecAdd(st.omega_BN_B, VecScale(st.omegaDot_BN_B, elapsed)) ]

\* Lines 655-656 and 684-685 (SPICE body), 670 and 699 (spacecraft): the
\* state at currentTime + timeStep.  The angular acceleration is the one the
\* source reads on that line, passed in as rate.
PredictFuture(st, current, rate, timeStep) ==
    IF st.isSpice
    THEN [ r_BN_N |-> VecAdd(current.r_BN_N, VecScale(st.v_BN_N, timeStep)),
           v_BN_N |-> st.v_BN_N ]
    ELSE [ omega_BN_B |-> VecAdd(current.omega_BN_B, VecScale(rate.omegaDot_BN_B, timeStep)) ]

\* The body whose omegaDot_BN_B line 699 reads for body2Future.
RateOfBody2(A, B) == A

InitPredict ==
    /\ predIn \in [ A : StoredStates, B : StoredStates,
                    elapsed : 0..MaxElapsed, timeStep : 1..MaxStep ]
    /\ predOut = << >>
    /\ SolverIdle
    /\ BoxIdle
    /\ FineIdle
    /\ IntervalIdle
    /\ MeshIdle
    /\ EffectorIdle

\* Lines 647-703 for the pair (A, B).
PredictStates ==
    /\ predOut = << >>
    /\ \E c1 \in { PredictCurrent(predIn.A, predIn.elapsed) },
          c2 \in { PredictCurrent(predIn.B, predIn.elapsed) } :
          predOut' = [ body1Current |-> c1,
                       body1Future |-> PredictFuture(predIn.A, c1, predIn.A, predIn.timeStep),
                       body2Current |-> c2,
                       body2Future |-> PredictFuture(predIn.B, c2,
                                                     RateOfBody2(predIn.A, predIn.B),
                                                     predIn.timeStep) ]
    /\ UNCHANGED << predIn, exceptPredict >>

NextPredict == PredictStates

SpecPredict == InitPredict /\ [][NextPredict]_vars

\* C26 (as claimed): the predicted states of a body come from that body's own
\* stored states only; body B's predicted future angular velocity is B's
\* current angular velocity plus B's own angular acceleration times timeStep.
C26_OwnStateOnly ==
    (predOut # << >> /\ ~predIn.B.isSpice) =>
        predOut.body2Future.omega_BN_B =
            VecAdd(predOut.body2Current.omega_BN_B,
                   VecScale(predIn.B.omegaDot_BN_B, predIn.timeStep))

-----------------------------------------------------------------------------
(* The seed of the energy states                                           *)

\* C27 (as claimed): in the initial collision state the compression and the
\* restitution work entry of every contact k are seeded with magnitude 1e-14
\* and the sign of the normal component of contact k's initial relative
\* velocity, X_c[3k+2]: negative when the bodies approach, positive otherwise.
C27_SeedFollowsNormal ==
    (solverPc = "loop" /\ currLoop = 0) =>
        \A impNum \in 0..(NumImpactsOf(X_c) - 1) :
            LET seed == IF Velocity(X_c, impNum, 3) < 0 THEN -EnergySeed ELSE EnergySeed
            IN  /\ CompressionEnergy(X_c, impNum) = seed
                /\ RestitutionEnergy(X_c, impNum) = seed

-----------------------------------------------------------------------------
(* The bounding box of a cluster                                           *)

\* C28 (as claimed): for every cluster ComputeHalfEdge produces, the box
\* centred at the cluster's centroid with the cluster's half extents
\* (boundingBox) contains every vertex of every face of the cluster.
C28_BoxContainsCluster ==
    hePc # "objFile" =>
        \A c \in 1..Len(polyhedron.polyhedron) :
            LET cl == polyhedron.polyhedron[c] IN
            \A v \in ClusterVertices(cl), k \in 1..3 :
                Abs(2 * At(vertices, v)[k] - cl.centroid[k]) <= cl.boundingBox[k]

-----------------------------------------------------------------------------
(* The queues the body-B branch reads                                      *)

\* The outcomes of the body-B branch that read or erase the head of a queue
\* of body B: lines 1185-1186, 1190-1193, 1212-1219 and 1224.
HeadReadingKinds == { "replayB", "resetB", "matchB", "lateRandB", "undefined" }

\* C29: whenever the body-B branch of computeForceTorque reads or erases the
\* head of body B's forceExternal_N, torqueExternalPntB_B, impactTimes or
\* impactTimeSteps queue, that queue is not empty when the call begins.
C29_HeadsPresent ==
    [][ (last'.op = "computeForceTorque" /\ last'.kind \in HeadReadingKinds) =>
            LET body == Bodies[last'.pair[2] + 1]
            IN  /\ last'.kind # "undefined"
                /\ body.forceExternal_N # << >>
                /\ body.torqueExternalPntB_B # << >>
                /\ body.impactTimes # << >>
                /\ body.impactTimeSteps # << >> ]_vars

\* A call of the body-B branch has erased the heads of the four queues of
\* body B, which held one entry each.
C29_Witness ==
    /\ last.op = "computeForceTorque"
    /\ last.kind = "resetB"
    /\ Bodies[last.pair[2] + 1].forceExternal_N = << >>
    /\ Bodies[last.pair[2] + 1].impactTimes = << >>

-----------------------------------------------------------------------------
(* Meshes with boundary edges                                              *)

\* Some edge of the mesh belongs to one face only.
HasBoundaryEdge ==
    \E i \in 1..Len(AllFaces(shapes)) :
        Cardinality({ j \in 1..Len(AllFaces(shapes)) :
                        j # i /\ SharesEdge(AllFaces(shapes)[i], AllFaces(shapes)[j]) }) < 3

\* C30 (as claimed): ComputeHalfEdge never uses the placeholder -1 of a
\* missing neighbour as a face index, and it returns normally for a mesh that
\* has boundary edges.
C30_BoundaryMeshReturns ==
    (hePc # "objFile" /\ HasBoundaryEdge) => polyhedron.status = "ok"

====
